---- MODULE Spec2Model ----
(***************************************************************************)
(* Model of the map / pathing core of the tower-defense game               *)
(* (src/js/game/systems/map.js, class MapSystem and class PathNode).       *)
(*                                                                         *)
(* A coordinate is a pair <<x, y>>.  The grid is a function from the       *)
(* in-bounds coordinates to the cell types 0..4 of map.js:31.  A path is   *)
(* a sequence of coordinates; the value findPath returns (an array or      *)
(* null) is the record [found, path], null being NoPath.                   *)
(***************************************************************************)
EXTENDS Integers, Sequences, FiniteSets, TLC

VARIABLES
    gridWidth,    \* MapSystem.gridWidth
    gridHeight,   \* MapSystem.gridHeight
    grid,         \* MapSystem.grid
    pathCache,    \* MapSystem.pathCache : key -> [found, path]
    playerBase,   \* MapSystem.playerBase : NoBase or a coordinate
    enemySpawns,  \* MapSystem.enemySpawns : sequence of coordinates
    enemies,      \* EnemyManager.enemies : sequence of BasicEnemy records
    call,         \* the last call made on the MapSystem and what it returned
    emitted,      \* the notifications the last call emitted, in order
    returned,     \* key -> what the last findPath call without bypass for the
                  \* key returned, over the calls since the last write of a
                  \* cell; kept where the calls are recorded (FindPathRecorded)
    playerBaseHp, \* PlayerBase.hp of the base the EnemyManager reports to
    cash,         \* CashManager.cash
    placing,      \* TowerPlacementSystem: isPlacingTower and the cost in the
                  \* stats of the selected tower type
    wave,         \* WaveManager: its flags, wave number and spawn counts
    events,       \* EventEmitter.events of one event name, and how often
                  \* each listener registered with once was invoked
    departed      \* the enemies spliced out of EnemyManager.enemies that a
                  \* bullet in flight still has as its target

\* the state of the objects around the map and the enemies
gameVars == <<playerBaseHp, cash, placing, wave, events, departed>>

vars == <<gridWidth, gridHeight, grid, pathCache, playerBase, enemySpawns, enemies,
          call, emitted, returned, gameVars>>

----------------------------------------------------------------------------
(* Bounds of the model *)

\* largest number of entries of MapSystem.enemySpawns the model explores
MaxSpawns == 1

\* largest number of entries of MapSystem.pathCache the model explores
MaxCache == 1

\* largest number of entries of EnemyManager.enemies the model explores
MaxEnemies == 1

\* largest number of spawns registered on the maps the placement checks are
\* enumerated on
MaxWaveEnemies == 2
MaxBlocked == 2
MaxSetupSpawns == 2

----------------------------------------------------------------------------
(* Cell types, map.js:31 *)

\* bullets in flight and the cash the model follows the player to
MaxBullets == 2
MaxCash == 120

\* listeners registered with once
MaxListeners == 3

EMPTY == 0
TOWER == 1
OBSTACLE == 2
PLAYER_BASE == 3
ENEMY_SPAWN == 4

\* BasicEnemy: this.hp, this.cashValue, this.damageToBase (part_001:203-208)
EnemyHp == 50
CashValue == 10
DamageToBase == 10

\* CannonTower: this.cost, this.damage (part_001:20-23)
CannonCost == 50
CannonDamage == 15

\* stats.cost of a tower type whose stats have no cost
Undefined == -1

\* currentGridHover = { x: -1, y: -1 }
NoHover == <<-1, -1>>

CellTypes == {EMPTY, TOWER, OBSTACLE, PLAYER_BASE, ENEMY_SPAWN}

\* MapSystem.playerBase = null
NoBase == <<>>

\* findPath's null result
NoPath == [found |-> FALSE, path |-> <<>>]

Found(p) == [found |-> TRUE, path |-> p]

Abs(n) == IF n < 0 THEN -n ELSE n

\* the coordinates of a w x h grid
Cells(w, h) == (0 .. w - 1) \X (0 .. h - 1)

----------------------------------------------------------------------------
(* Grid queries *)

isValidGridCoords(w, h, c) ==
    c[1] >= 0 /\ c[1] < w /\ c[2] >= 0 /\ c[2] < h

\* -1 is the out-of-bounds sentinel
getCellType(g, w, h, c) ==
    IF isValidGridCoords(w, h, c) THEN g[c] ELSE -1

\* isCellPassable with the player base left out of the cells enemies pass
isCellPassable_BaseBlocked(g, w, h, c, forEnemies) ==
    IF ~isValidGridCoords(w, h, c) THEN FALSE
    ELSE IF forEnemies
         THEN g[c] = EMPTY \/ g[c] = ENEMY_SPAWN
         ELSE g[c] = EMPTY

isCellPassable(g, w, h, c, forEnemies) ==
    IF ~isValidGridCoords(w, h, c) THEN FALSE
    ELSE IF forEnemies
         THEN g[c] = EMPTY \/ g[c] = PLAYER_BASE \/ g[c] = ENEMY_SPAWN
         ELSE g[c] = EMPTY

----------------------------------------------------------------------------
(* Pathfinding: the A-star search of findPath *)

\* Manhattan distance
Heuristic(a, b) == Abs(a[1] - b[1]) + Abs(a[2] - b[2])

\* A PathNode.  The parent reference is kept as the path from the start to
\* the node: a parent is always a closed node, and a closed node is never
\* changed again, so its chain of parents is fixed when it is assigned.
PathNode(pos, parentPath, g, h) ==
    [pos |-> pos, path |-> Append(parentPath, pos), g |-> g, h |-> h, f |-> g + h]

\* openSet.sort((a, b) => a.f - b.f): Array.prototype.sort is stable, so
\* nodes of equal f keep the order they had in the array
RECURSIVE InsertByF(_, _)
InsertByF(sorted, n) ==
    IF sorted = <<>> THEN <<n>>
    ELSE IF Head(sorted).f <= n.f
         THEN <<Head(sorted)>> \o InsertByF(Tail(sorted), n)
         ELSE <<n>> \o sorted

\* the sort with the comparison reversed: (a, b) => b.f - a.f
RECURSIVE SortByF_Descending(_)
SortByF_Descending(open) ==
    IF open = <<>> THEN <<>>
    ELSE LET rest == SortByF_Descending(SubSeq(open, 1, Len(open) - 1))
             n == open[Len(open)]
             k == Cardinality({i \in 1 .. Len(rest) : rest[i].f >= n.f})
         IN SubSeq(rest, 1, k) \o <<n>> \o SubSeq(rest, k + 1, Len(rest))

RECURSIVE SortByF(_)
SortByF(open) ==
    IF open = <<>> THEN <<>>
    ELSE InsertByF(SortByF(SubSeq(open, 1, Len(open) - 1)), open[Len(open)])

\* neighbors with the right neighbor forgotten (up twice)
Neighbors_NoRight(c) ==
    << <<c[1], c[2] - 1>>, <<c[1], c[2] + 1>>, <<c[1] - 1, c[2]>>, <<c[1], c[2] - 1>> >>

\* neighbors, in the order up, down, left, right
Neighbors(c) ==
    << <<c[1], c[2] - 1>>, <<c[1], c[2] + 1>>, <<c[1] - 1, c[2]>>, <<c[1] + 1, c[2]>> >>

\* openSet.find(n => n.x === x && n.y === y): index of the node, 0 if none
OpenIndex(open, pos) ==
    IF \E i \in 1 .. Len(open) : open[i].pos = pos
    THEN CHOOSE i \in 1 .. Len(open) :
             open[i].pos = pos /\ \A j \in 1 .. i - 1 : open[j].pos # pos
    ELSE 0

\* the loop body with the neighbor tested for being on the grid only
Relax_ThroughWalls(g, w, h, open, closed, cur, nb, end) ==
    IF ~isValidGridCoords(w, h, nb) \/ nb \in closed THEN open
    ELSE LET gScore == cur.g + 1
             i == OpenIndex(open, nb)
         IN IF i = 0
            THEN Append(open, PathNode(nb, cur.path, gScore, Heuristic(nb, end)))
            ELSE IF gScore < open[i].g
                 THEN [open EXCEPT ![i] = [pos |-> nb, path |-> Append(cur.path, nb),
                                           g |-> gScore, h |-> open[i].h,
                                           f |-> gScore + open[i].h]]
                 ELSE open

\* the body of the loop over the neighbors, for one neighbor
Relax(g, w, h, open, closed, cur, nb, end) ==
    IF ~isCellPassable(g, w, h, nb, TRUE) \/ nb \in closed THEN open
    ELSE LET gScore == cur.g + 1
             i == OpenIndex(open, nb)
         IN IF i = 0
            THEN Append(open, PathNode(nb, cur.path, gScore, Heuristic(nb, end)))
            ELSE IF gScore < open[i].g
                 THEN [open EXCEPT ![i] = [pos |-> nb, path |-> Append(cur.path, nb),
                                           g |-> gScore, h |-> open[i].h,
                                           f |-> gScore + open[i].h]]
                 ELSE open

RelaxAll(g, w, h, open, closed, cur, end) ==
    LET nbs == Neighbors(cur.pos)
        o1 == Relax(g, w, h, open, closed, cur, nbs[1], end)
        o2 == Relax(g, w, h, o1, closed, cur, nbs[2], end)
        o3 == Relax(g, w, h, o2, closed, cur, nbs[3], end)
    IN Relax(g, w, h, o3, closed, cur, nbs[4], end)

\* the while loop of findPath
RECURSIVE AStarLoop(_, _, _, _, _, _)
AStarLoop(g, w, h, open, closed, end) ==
    IF open = <<>> THEN NoPath
    ELSE LET sorted == SortByF(open)
             currentNode == Head(sorted)
             rest == Tail(sorted)
         IN IF currentNode.pos = end
            THEN Found(currentNode.path)
            ELSE AStarLoop(g, w, h,
                           RelaxAll(g, w, h, rest, closed \cup {currentNode.pos},
                                    currentNode, end),
                           closed \cup {currentNode.pos}, end)

\* a search from scratch: findPath past the cache lookup
Search(g, w, h, start, end) ==
    AStarLoop(g, w, h, <<PathNode(start, <<>>, 0, Heuristic(start, end))>>, {}, end)

\* the while loop of findPath again, keeping what each iteration did: the
\* open set as sorted, the node shifted off it, whether that node was the
\* end, and the coordinates the iteration pushed
RECURSIVE AStarTrace(_, _, _, _, _, _)
AStarTrace(g, w, h, open, closed, end) ==
    IF open = <<>> THEN <<>>
    ELSE LET sorted == SortByF(open)
             currentNode == Head(sorted)
             rest == Tail(sorted)
             relaxed == RelaxAll(g, w, h, rest, closed \cup {currentNode.pos},
                                 currentNode, end)
         IN IF currentNode.pos = end
            THEN << [open |-> sorted, current |-> currentNode.pos, atEnd |-> TRUE,
                     pushed |-> <<>>] >>
            ELSE << [open |-> sorted, current |-> currentNode.pos, atEnd |-> FALSE,
                     pushed |-> [k \in 1 .. Len(relaxed) - Len(rest) |->
                                    relaxed[Len(rest) + k].pos]] >>
                 \o AStarTrace(g, w, h, relaxed, closed \cup {currentNode.pos}, end)

\* the iterations of a search from scratch
SearchTrace(g, w, h, start, end) ==
    AStarTrace(g, w, h, <<PathNode(start, <<>>, 0, Heuristic(start, end))>>, {}, end)

\* the cache key `${startX},${startY}_${endX},${endY}`
CacheKey(start, end) == <<start, end>>

CacheHit(cache, start, end, forceRecalculate) ==
    ~forceRecalculate /\ CacheKey(start, end) \in DOMAIN cache

CachePut(cache, key, val) ==
    [k \in DOMAIN cache \cup {key} |-> IF k = key THEN val ELSE cache[k]]

\* what findPath returns
findPathResult(g, w, h, cache, start, end, forceRecalculate) ==
    IF CacheHit(cache, start, end, forceRecalculate)
    THEN cache[CacheKey(start, end)]
    ELSE Search(g, w, h, start, end)

\* the cache findPath leaves: both exits of the search write the result
\* (map.js:230 and map.js:269), whatever forceRecalculate is
findPathCache(g, w, h, cache, start, end, forceRecalculate) ==
    IF CacheHit(cache, start, end, forceRecalculate)
    THEN cache
    ELSE CachePut(cache, CacheKey(start, end), Search(g, w, h, start, end))

----------------------------------------------------------------------------
(* Mutation of a cell *)

\* invalidatePathCache that clears nothing
invalidatePathCache_Keep(cache) == cache

\* invalidatePathCache(): this.pathCache.clear()
invalidatePathCache(cache) == <<>>

\* the mapChanged notification without the new cell type
MapChanged_Untyped(c, type) == [name |-> "mapChanged", at |-> c, type |-> -1]

\* eventEmitter.emit('mapChanged', { x, y, type })
MapChanged(c, type) == [name |-> "mapChanged", at |-> c, type |-> type]

\* the grid setCellType(x, y, type) leaves
setCellTypeGrid(g, w, h, c, type) ==
    IF isValidGridCoords(w, h, c) THEN [g EXCEPT ![c] = type] ELSE g

\* setCellType invalidating the cache before it validates the coordinate
setCellTypeCache_Unvalidated(w, h, cache, c) == invalidatePathCache(cache)

\* the cache setCellType(x, y, type) leaves
setCellTypeCache(w, h, cache, c) ==
    IF isValidGridCoords(w, h, c) THEN invalidatePathCache(cache) ELSE cache

\* the notifications setCellType(x, y, type) emits
setCellTypeEvents(w, h, c, type) ==
    IF isValidGridCoords(w, h, c) THEN <<MapChanged(c, type)>> ELSE <<>>

----------------------------------------------------------------------------
(* Tower placement *)

\* the loop of canPlaceTower stopping after the first spawn
SpawnLoop_FirstSpawnOnly(g, w, h, cache, spawns, base, i) ==
    IF i > Len(spawns) THEN [ok |-> TRUE, cache |-> cache]
    ELSE LET path == findPathResult(g, w, h, cache, spawns[i], base, TRUE)
             cache2 == findPathCache(g, w, h, cache, spawns[i], base, TRUE)
         IN [ok |-> path.found /\ Len(path.path) > 0, cache |-> cache2]

\* the loop of canPlaceTower over this.enemySpawns, from spawn number i on:
\* each spawn is searched with forceRecalculate = true on the grid g that
\* holds the simulated tower; the loop stops at the first spawn without a
\* path.  Gives the value of allPathsValid and the cache the calls leave.
RECURSIVE SpawnLoop(_, _, _, _, _, _, _)
SpawnLoop(g, w, h, cache, spawns, base, i) ==
    IF i > Len(spawns) THEN [ok |-> TRUE, cache |-> cache]
    ELSE LET path == findPathResult(g, w, h, cache, spawns[i], base, TRUE)
             cache2 == findPathCache(g, w, h, cache, spawns[i], base, TRUE)
         IN IF ~path.found \/ Len(path.path) = 0
            THEN [ok |-> FALSE, cache |-> cache2]
            ELSE SpawnLoop(g, w, h, cache2, spawns, base, i + 1)

\* the grid during the simulation: this.grid[gridY][gridX] = 1
SimulatedGrid(g, c) == [g EXCEPT ![c] = TOWER]

\* canPlaceTower testing that the cell is on the grid, not that it is empty
canPlaceTowerResult_AnyCell(g, w, h, cache, spawns, base, c) ==
    IF ~isValidGridCoords(w, h, c) THEN FALSE
    ELSE IF base = NoBase THEN FALSE
    ELSE SpawnLoop(SimulatedGrid(g, c), w, h, cache, spawns, base, 1).ok

\* what canPlaceTower returns
canPlaceTowerResult(g, w, h, cache, spawns, base, c) ==
    IF ~isCellPassable(g, w, h, c, FALSE) THEN FALSE
    ELSE IF base = NoBase THEN FALSE
    ELSE SpawnLoop(SimulatedGrid(g, c), w, h, cache, spawns, base, 1).ok

\* canPlaceTower without the revert on the exit taken when no base is set
canPlaceTowerGrid_NoRevert(g, w, h, base, c) ==
    IF ~isCellPassable(g, w, h, c, FALSE) THEN g
    ELSE LET originalCellType == g[c]
             sim == SimulatedGrid(g, c)
         IN IF base = NoBase
            THEN sim
            ELSE [sim EXCEPT ![c] = originalCellType]

\* the grid canPlaceTower leaves: the simulated tower is written and the
\* original cell type is written back on both exits (map.js:143, map.js:165)
canPlaceTowerGrid(g, w, h, base, c) ==
    IF ~isCellPassable(g, w, h, c, FALSE) THEN g
    ELSE LET originalCellType == g[c]
             sim == SimulatedGrid(g, c)
         IN IF base = NoBase
            THEN [sim EXCEPT ![c] = originalCellType]
            ELSE [sim EXCEPT ![c] = originalCellType]

\* the cache canPlaceTower leaves
canPlaceTowerCache(g, w, h, cache, spawns, base, c) ==
    IF ~isCellPassable(g, w, h, c, FALSE) THEN cache
    ELSE IF base = NoBase THEN cache
    ELSE SpawnLoop(SimulatedGrid(g, c), w, h, cache, spawns, base, 1).cache

----------------------------------------------------------------------------
(* Enemies: BasicEnemy and the EnemyManager's mapStructureChanged listener *)

\* BasicEnemy.recalculatePath on enemy e; gives the enemy and the cache
recalculatePath(g, w, h, cache, e) ==
    LET p1 == findPathResult(g, w, h, cache, e.start, e.target, FALSE)
        c1 == findPathCache(g, w, h, cache, e.start, e.target, FALSE)
        p2 == findPathResult(g, w, h, c1, e.pos, e.target, FALSE)
        c2 == findPathCache(g, w, h, c1, e.pos, e.target, FALSE)
        setIndex(en) ==
            [en EXCEPT !.idx = IF Len(en.path.path) > 1 THEN 1 ELSE 0]
    IN IF p1.found /\ Len(p1.path) > 0
       THEN [enemy |-> setIndex([e EXCEPT !.path = p1]), cache |-> c1]
       ELSE IF p2.found /\ Len(p2.path) > 0
            THEN [enemy |-> setIndex([e EXCEPT !.path = p2]), cache |-> c2]
            ELSE [enemy |-> [e EXCEPT !.path = p2, !.isActive = FALSE], cache |-> c2]

\* new BasicEnemy(mapSystem, start, target, enemyManager): the constructor
\* sets isActive = true after its call of recalculatePath.  Besides the
\* fields of the object the record has incoming, the number of bullets in
\* flight whose target is this enemy, and defeated and reachedBase, how often
\* the enemy has called handleEnemyDefeated and handleEnemyReachedBase.
NewEnemy(g, w, h, cache, start, target) ==
    LET e0 == [pos |-> start, start |-> start, target |-> target,
               path |-> NoPath, idx |-> 0, isActive |-> FALSE,
               hp |-> EnemyHp, incoming |-> 0, defeated |-> 0, reachedBase |-> 0]
        r == recalculatePath(g, w, h, cache, e0)
    IN [enemy |-> [r.enemy EXCEPT !.isActive = TRUE], cache |-> r.cache]

\* BasicEnemy.onMapStructureChanged
onMapStructureChanged(g, w, h, cache, e) ==
    recalculatePath(g, w, h, cache, [e EXCEPT !.start = e.pos])

\* an EnemyManager that is not subscribed: no enemy recomputes its path
updateAllEnemyPaths_NotSubscribed(g, w, h, cache, es, i) ==
    [enemies |-> es, cache |-> cache]

\* EnemyManager.updateAllEnemyPaths, from enemy number i on
RECURSIVE updateAllEnemyPaths(_, _, _, _, _, _)
updateAllEnemyPaths(g, w, h, cache, es, i) ==
    IF i > Len(es) THEN [enemies |-> es, cache |-> cache]
    ELSE IF es[i].isActive
         THEN LET r == onMapStructureChanged(g, w, h, cache, es[i])
              IN updateAllEnemyPaths(g, w, h, r.cache, [es EXCEPT ![i] = r.enemy], i + 1)
         ELSE updateAllEnemyPaths(g, w, h, cache, es, i + 1)

\* BasicEnemy.update(dt).  pos is the cell the enemy is in and idx is
\* currentPathIndex; the waypoint the enemy heads for is path[currentPathIndex],
\* a cell next to the one it is in.  dt decides how far it gets: it stays in
\* its cell ("stay"), enters the cell of the waypoint without reaching its
\* centre ("cross"), or reaches the centre and takes the next waypoint
\* ("arrive").  Gives the enemy and the cache.
updateEnemy(g, w, h, cache, e, outcome) ==
    LET waiting == ~e.isActive \/ ~e.path.found \/ Len(e.path.path) = 0
                      \/ e.idx >= Len(e.path.path)
        targetGridCell == e.path.path[e.idx + 1]
        \* the enemy once it has moved, before any new path is asked for
        moved == IF waiting \/ outcome = "stay" THEN e
                 ELSE IF outcome = "cross" THEN [e EXCEPT !.pos = targetGridCell]
                 ELSE IF e.idx + 1 >= Len(e.path.path) /\ targetGridCell = e.target
                      THEN [e EXCEPT !.pos = targetGridCell, !.idx = e.idx + 1,
                                     !.isActive = FALSE,
                                     !.reachedBase = e.reachedBase + 1]
                      ELSE [e EXCEPT !.pos = targetGridCell, !.idx = e.idx + 1]
        \* it asks for one: it is active without a path, or it has reached
        \* the last waypoint of its path and that is not its target
        repath == IF waiting
                  THEN e.isActive /\ (~e.path.found \/ Len(e.path.path) = 0)
                  ELSE /\ outcome = "arrive"
                       /\ e.idx + 1 >= Len(e.path.path)
                       /\ targetGridCell # e.target
    IN IF repath
       THEN recalculatePath(g, w, h, cache, [moved EXCEPT !.start = moved.pos])
       ELSE [enemy |-> moved, cache |-> cache]

\* this.enemies.splice(i, 1)
RemoveAt(es, i) == SubSeq(es, 1, i - 1) \o SubSeq(es, i + 1, Len(es))

\* if (!enemy.isActive) this.enemies.splice(i, 1), for enemy number i as its
\* update left it
removeInactive(es, i, e) ==
    IF e.isActive THEN [es EXCEPT ![i] = e] ELSE RemoveAt(es, i)

NoArg == <<-9, -9>>

\* eventEmitter.emit('cashChanged', { currentCash, ... })
CashChanged(c) == [name |-> "cashChanged", at |-> NoArg, type |-> c]

\* BasicEnemy.takeDamage(amount) that does not look at isActive
takeDamage_Unguarded(e, amount) ==
    IF e.hp - amount <= 0
    THEN [e EXCEPT !.hp = 0, !.isActive = FALSE, !.defeated = e.defeated + 1]
    ELSE [e EXCEPT !.hp = e.hp - amount]

\* BasicEnemy.takeDamage(amount); at hp 0 it calls onDie, which sets isActive
\* false and calls enemyManager.handleEnemyDefeated(this, cashValue)
takeDamage(e, amount) ==
    IF ~e.isActive THEN e
    ELSE IF e.hp - amount <= 0
         THEN [e EXCEPT !.hp = 0, !.isActive = FALSE, !.defeated = e.defeated + 1]
         ELSE [e EXCEPT !.hp = e.hp - amount]

\* BasicBullet.onHit() of a bullet whose target is e: the bullet is spent
onHit(e, damage) ==
    [(IF e.isActive THEN takeDamage(e, damage) ELSE e) EXCEPT !.incoming = e.incoming - 1]

\* BasicBullet.update(dt) of a bullet whose target is e, dt taking it as far
\* as outcome says: a bullet whose target is inactive is spent
bulletUpdate(e, damage, outcome) ==
    IF ~e.isActive THEN [e EXCEPT !.incoming = e.incoming - 1]
    ELSE IF outcome = "hit" THEN onHit(e, damage)
    ELSE e

\* MunitionsManager.updateMunitions(dt), the bullets whose target is e, from
\* bullet number i of them down; they are the bullets off + 1 .. off + i of
\* all the bullets in flight
RECURSIVE updateBullets(_, _, _, _, _)
updateBullets(e, damage, outcomes, off, i) ==
    IF i = 0 THEN e
    ELSE updateBullets(bulletUpdate(e, damage, outcomes[off + i]), damage, outcomes, off, i - 1)

\* how often the enemies es have called handleEnemyDefeated
RECURSIVE Defeats(_)
Defeats(es) == IF es = <<>> THEN 0 ELSE Head(es).defeated + Defeats(Tail(es))

\* the bullets in flight to the enemies es
RECURSIVE Incoming(_)
Incoming(es) == IF es = <<>> THEN 0 ELSE Head(es).incoming + Incoming(Tail(es))

\* MunitionsManager.updateMunitions(dt) as the targets ts see it
updateMunitions(ts, damage, outcomes) ==
    [k \in 1 .. Len(ts) |->
        updateBullets(ts[k], damage, outcomes, Incoming(SubSeq(ts, 1, k - 1)), ts[k].incoming)]

\* CashManager.addCash(cashValue), called n times from cash c: what is emitted
addCashEvents(c, n) == [k \in 1 .. n |-> CashChanged(c + k * CashValue)]

\* CannonTower.prototype.getStats().cost: getStats returns this.cost, and cost
\* is a field the constructor sets on the instance, so the prototype has none
PrototypeCost == Undefined

\* the stats.cost registerTowerType(typeName, CannonTower, stats) stores, stats
\* being Undefined when the argument is absent:
\* (stats || prototype.getStats) ? prototype.getStats() : {}
registeredCost(stats) ==
    IF stats # Undefined \/ TRUE THEN PrototypeCost ELSE Undefined

\* previewTowerInstance.stats.cost || 0
towerCost(cost) == IF cost = Undefined THEN 0 ELSE cost

\* CashManager.hasEnoughCash(amount)
hasEnoughCash(c, amount) == c >= amount

\* CashManager.spendCash(amount): the cash it leaves
spendCash(c, amount) ==
    IF amount <= 0 THEN c ELSE IF c >= amount THEN c - amount ELSE c

\* CashManager.spendCash(amount): what it emits
spendCashEvents(c, amount) ==
    IF amount > 0 /\ c >= amount THEN <<CashChanged(c - amount)>> ELSE <<>>

\* eventEmitter.emit('towerPlaced', newTower)
TowerPlaced(c) == [name |-> "towerPlaced", at |-> c, type |-> TOWER]

\* eventEmitter.emit('towerPlacementCancelled')
TowerPlacementCancelled == [name |-> "towerPlacementCancelled", at |-> NoArg, type |-> -1]

\* TowerPlacementSystem.cancelPlacement()
cancelPlacement(pl) ==
    [pl EXCEPT !.isPlacingTower = FALSE, !.cost = Undefined, !.hover = NoHover]

\* WaveManager._defineWaves(): the groups of each wave, count enemies of type
\* BasicEnemy each, with mods.hpMultiplier in tenths
WaveDefinitions ==
    << <<[count |-> 5, hpTenths |-> 10]>>,
       <<[count |-> 8, hpTenths |-> 10], [count |-> 3, hpTenths |-> 12]>>,
       <<[count |-> 10, hpTenths |-> 10], [count |-> 5, hpTenths |-> 10]>> >>

\* WaveManager.stop()
waveStop(wv) == [wv EXCEPT !.isRunning = FALSE, !.isSpawning = FALSE]

\* WaveManager.start()
waveStart(wv) ==
    IF wv.isRunning THEN wv
    ELSE [wv EXCEPT !.isRunning = TRUE, !.currentWaveNumber = 0, !.full = {}]

\* WaveManager._startNextWave()
startNextWave(wv) ==
    IF wv.currentWaveNumber >= Len(WaveDefinitions) THEN wv
    ELSE [wv EXCEPT !.currentWaveNumber = wv.currentWaveNumber + 1,
                    !.groupIndex = 0,
                    !.spawnedCount = [g \in 1 .. Len(WaveDefinitions[wv.currentWaveNumber + 1]) |-> 0],
                    !.made = [g \in 1 .. Len(WaveDefinitions[wv.currentWaveNumber + 1]) |-> 0],
                    !.isSpawning = TRUE]

\* eventEmitter.emit('waveStarted', { waveNumber })
WaveStarted(n) == [name |-> "waveStarted", at |-> NoArg, type |-> n]

\* eventEmitter.emit('allWavesCleared')
AllWavesCleared == [name |-> "allWavesCleared", at |-> NoArg, type |-> -1]

\* the groups of the wave wv is in
currentGroups(wv) == WaveDefinitions[wv.currentWaveNumber]

\* the part of WaveManager.update(dt) after _spawnEnemyFromGroup(currentGroup)
\* was called with n spawn points: spawnedCount is incremented, a finished
\* group makes way for the next one and the last finished group ends the
\* spawning; with no spawn point _spawnEnemyFromGroup has ended the spawning
afterSpawn(wv, n) ==
    LET g == wv.groupIndex + 1
        count == currentGroups(wv)[g].count
        finished == wv.spawnedCount[g] + 1 >= count
        made == IF n > 0 THEN [wv.made EXCEPT ![g] = wv.made[g] + 1] ELSE wv.made
    IN [wv EXCEPT
          !.spawnedCount = [wv.spawnedCount EXCEPT ![g] = wv.spawnedCount[g] + 1],
          !.made = made,
          !.groupIndex = IF finished THEN wv.groupIndex + 1 ELSE wv.groupIndex,
          !.isSpawning = ~(n = 0 \/ (finished /\ g >= Len(currentGroups(wv)))),
          !.full = IF \A k \in 1 .. Len(currentGroups(wv)) : made[k] >= currentGroups(wv)[k].count
                   THEN wv.full \cup {wv.currentWaveNumber} ELSE wv.full]

\* group.mods applied to the n enemies _spawnEnemyFromGroup has just created
withMods(es, n, hpTenths) ==
    [i \in 1 .. Len(es) |->
        IF i > Len(es) - n THEN [es[i] EXCEPT !.hp = (es[i].hp * hpTenths) \div 10]
        ELSE es[i]]

\* EventEmitter.on(eventName, onceWrapper), as once calls it for a listener of
\* the kind given
once(ev, kind) ==
    [listeners |-> Append(ev.listeners, Len(ev.invoked) + 1),
     invoked |-> Append(ev.invoked, [kind |-> kind, count |-> 0])]

\* EventEmitter.off(eventName, onceWrapper): this.events[eventName] becomes a
\* filtered copy
off(ev, id) == [ev EXCEPT !.listeners = SelectSeq(ev.listeners, LAMBDA x : x # id)]

\* emit's forEach over arr, the array this.events[eventName] was when emit
\* was called, from element i on
RECURSIVE emitFrom(_, _, _)
\* onceWrapper number id: listener.apply(null, args), then this.off.  A
\* listener of kind "throws" throws on its first invocation, and emit
\* catches it; one of kind "emits" emits the event on its first invocation.
RECURSIVE onceWrapper(_, _)
onceWrapper(ev, id) ==
    IF ev.invoked[id].kind = "throws" /\ ev.invoked[id].count = 0
    THEN [ev EXCEPT !.invoked[id].count = 1]
    ELSE IF ev.invoked[id].kind = "emits" /\ ev.invoked[id].count = 0
    THEN off(emitFrom([ev EXCEPT !.invoked[id].count = 1], ev.listeners, 1), id)
    ELSE off([ev EXCEPT !.invoked[id].count = ev.invoked[id].count + 1], id)

emitFrom(ev, arr, i) ==
    IF i > Len(arr) THEN ev ELSE emitFrom(onceWrapper(ev, arr[i]), arr, i + 1)

\* EventEmitter.emit(eventName)
emit(ev) == emitFrom(ev, ev.listeners, 1)

\* PlayerBase.takeDamage(amount): the hp it leaves
takeDamageHp(hp, amount) == IF hp - amount < 0 THEN 0 ELSE hp - amount

\* eventEmitter.emit('playerBaseHpChanged', { currentHp, maxHp })
PlayerBaseHpChanged(hp) == [name |-> "playerBaseHpChanged", at |-> NoArg, type |-> hp]

\* eventEmitter.emit('playerBaseDestroyed')
PlayerBaseDestroyed == [name |-> "playerBaseDestroyed", at |-> NoArg, type |-> -1]

\* PlayerBase.takeDamage(amount): what it emits; handleDestruction is called
\* whenever the hp is 0 after the damage
takeDamageEvents(hp, amount) ==
    <<PlayerBaseHpChanged(takeDamageHp(hp, amount))>>
        \o (IF takeDamageHp(hp, amount) = 0 THEN <<PlayerBaseDestroyed>> ELSE <<>>)

\* the state after enemy number i was updated with result r: an enemy that
\* reached the base has called enemyManager.handleEnemyReachedBase, which
\* calls playerBase.takeDamage(damageToBase); an inactive enemy is spliced
\* out of the list, and stays the target of the bullets in flight to it
afterEnemyUpdate(st, i, r) ==
    [enemies |-> removeInactive(st.enemies, i, r.enemy),
     cache |-> r.cache,
     hp |-> IF r.enemy.reachedBase > st.enemies[i].reachedBase
            THEN takeDamageHp(st.hp, DamageToBase) ELSE st.hp,
     emitted |-> IF r.enemy.reachedBase > st.enemies[i].reachedBase
                 THEN st.emitted \o takeDamageEvents(st.hp, DamageToBase)
                 ELSE st.emitted,
     departed |-> IF ~r.enemy.isActive /\ r.enemy.incoming > 0
                  THEN Append(st.departed, r.enemy) ELSE st.departed]

\* EnemyManager.updateEnemies(dt): the loop from the last enemy to the first,
\* at enemy number i; an enemy that is inactive after its update is removed.
\* st is the state the loop works on: the enemies, the path cache, the hp of
\* the base, what was emitted and the departed enemies.  updateEnemiesAfter
\* is the rest of the loop once enemy number i has been updated with result r.
RECURSIVE updateEnemies(_, _, _, _, _, _)
RECURSIVE updateEnemiesAfter(_, _, _, _, _, _, _)
updateEnemies(g, w, h, st, outcomes, i) ==
    IF i = 0 THEN st
    ELSE updateEnemiesAfter(g, w, h, st, outcomes, i,
                            updateEnemy(g, w, h, st.cache, st.enemies[i], outcomes[i]))

updateEnemiesAfter(g, w, h, st, outcomes, i, r) ==
    updateEnemies(g, w, h, afterEnemyUpdate(st, i, r), outcomes, i - 1)

----------------------------------------------------------------------------
(* The record of a call and the notifications *)

\* MapSystem.getEnemySpawnCoords: the coordinates of the registered spawns, one
\* per registration, in the order of the registrations
getEnemySpawnCoords(spawns) ==
    [i \in 1 .. Len(spawns) |-> <<spawns[i][1], spawns[i][2]>>]

\* the loop of WaveManager._spawnEnemyFromGroup over the spawn points, from
\* spawn point number i on: one new BasicEnemy per spawn point
RECURSIVE spawnEnemyFromGroup(_, _, _, _, _, _, _, _)
spawnEnemyFromGroup(g, w, h, cache, es, spawnPoints, target, i) ==
    IF i > Len(spawnPoints) THEN [enemies |-> es, cache |-> cache]
    ELSE LET r == NewEnemy(g, w, h, cache, spawnPoints[i], target)
         IN spawnEnemyFromGroup(g, w, h, r.cache, Append(es, r.enemy), spawnPoints,
                                target, i + 1)

\* the record of a call: its name and arguments, the boolean it returned
\* (FALSE for a method that returns nothing), the path it returned, and
\* whether it threw.  No method of MapSystem has a throw statement and every
\* read of this.grid is guarded by isValidGridCoords, so no call throws.
Call(op, a, b, force, type, ret, path) ==
    [op |-> op, a |-> a, b |-> b, force |-> force, type |-> type,
     ret |-> ret, path |-> path, raised |-> FALSE]

\* eventEmitter.emit('mapStructureChanged')
MapStructureChanged == [name |-> "mapStructureChanged", at |-> NoArg, type |-> -1]

\* MapSystem.placeTower(c) on grid g with cache and enemies es: what it
\* returns and leaves
placeTower(g, w, h, cache, spawns, base, es, c) ==
    IF canPlaceTowerResult(g, w, h, cache, spawns, base, c)
    THEN [ret |-> TRUE,
          grid |-> setCellTypeGrid(canPlaceTowerGrid(g, w, h, base, c), w, h, c, TOWER),
          upd |-> updateAllEnemyPaths(
                      setCellTypeGrid(canPlaceTowerGrid(g, w, h, base, c), w, h, c, TOWER),
                      w, h,
                      invalidatePathCache(setCellTypeCache(
                          w, h, canPlaceTowerCache(g, w, h, cache, spawns, base, c), c)),
                      es, 1),
          emitted |-> setCellTypeEvents(w, h, c, TOWER) \o <<MapStructureChanged>>]
    ELSE [ret |-> FALSE,
          grid |-> canPlaceTowerGrid(g, w, h, base, c),
          upd |-> [enemies |-> es,
                   cache |-> canPlaceTowerCache(g, w, h, cache, spawns, base, c)],
          emitted |-> <<>>]

\* the coordinates the calls are made with: every cell, and a coordinate
\* out of bounds in x and one out of bounds in y
Coords(w, h) == Cells(w, h) \cup {<<-1, 0>>, <<0, h>>}

----------------------------------------------------------------------------
(* The state machine *)

\* new PlayerBase(gridX, gridY, mapSystem, initialHp): the hp the base starts
\* with, one hit of an enemy
InitialHp == 10

\* new CashManager(initialCash, uiManager, eventEmitter)
InitialCash == 100

\* new TowerPlacementSystem(...): no tower type registered, isPlacingTower =
\* false, nothing selected.  towerTypes holds the registered type names and
\* typeCost the stats.cost registered for CannonTower; cost is
\* previewTowerInstance.stats.cost.
NotPlacing ==
    [towerTypes |-> {}, typeCost |-> Undefined, isPlacingTower |-> FALSE,
     cost |-> Undefined, hover |-> NoHover, canPlaceAtCurrentHover |-> FALSE]

\* new WaveManager(...).  target is playerBaseTargetCoords; groupIndex and
\* spawnedCount are those of currentWaveDefinition.  Besides the fields of
\* the object the record has made, the number of times each group of the
\* current wave has created its enemies, and full, the waves of this run
\* every group of which has created its enemies count times.
NewWaveManager ==
    [isRunning |-> FALSE, target |-> NoBase, currentWaveNumber |-> 0,
     isSpawning |-> FALSE, groupIndex |-> 0, spawnedCount |-> <<>>,
     made |-> <<>>, full |-> {}]

\* new EventEmitter(): this.events = {}.  listeners is this.events[eventName]
\* of one event name, each onceWrapper by its number; invoked has for each
\* number the kind of the listener that was given to once and how often it
\* has been invoked.
NewEventEmitter == [listeners |-> <<>>, invoked |-> <<>>]

\* the objects around the map as their constructors leave them
InitEntities ==
    /\ playerBaseHp = InitialHp
    /\ cash = InitialCash
    /\ placing = NotPlacing
    /\ wave = NewWaveManager
    /\ events = NewEventEmitter
    /\ departed = <<>>

\* the grid sizes MapSystem is constructed with
Dims == {<<3, 1>>}

\* new MapSystem(ctx, gridWidth, gridHeight, cellSize, eventEmitter)
Init ==
    /\ \E d \in Dims : gridWidth = d[1] /\ gridHeight = d[2]
    /\ grid = [c \in Cells(gridWidth, gridHeight) |-> EMPTY]
    /\ pathCache = <<>>
    /\ playerBase = NoBase
    /\ enemySpawns = <<>>
    /\ enemies = <<>>
    /\ call = Call("new", NoArg, NoArg, FALSE, -1, FALSE, NoPath)
    /\ emitted = <<>>
    /\ returned = <<>>
    /\ InitEntities

\* setCellType(x, y, type)
SetCellType(c, type) ==
    /\ call' = Call("setCellType", c, NoArg, FALSE, type, FALSE, NoPath)
    /\ grid' = setCellTypeGrid(grid, gridWidth, gridHeight, c, type)
    /\ pathCache' = setCellTypeCache(gridWidth, gridHeight, pathCache, c)
    /\ emitted' = setCellTypeEvents(gridWidth, gridHeight, c, type)
    /\ returned' = IF isValidGridCoords(gridWidth, gridHeight, c) THEN <<>> ELSE returned
    /\ UNCHANGED <<gameVars, gridWidth, gridHeight, playerBase, enemySpawns, enemies>>

\* setPlayerBase recording the base before the coordinate is validated
SetPlayerBase_Unvalidated(c) ==
    /\ call' = Call("setPlayerBase", c, NoArg, FALSE, -1, FALSE, NoPath)
    /\ playerBase' = c
    /\ grid' = setCellTypeGrid(grid, gridWidth, gridHeight, c, PLAYER_BASE)
    /\ pathCache' = setCellTypeCache(gridWidth, gridHeight, pathCache, c)
    /\ emitted' = setCellTypeEvents(gridWidth, gridHeight, c, PLAYER_BASE)
    /\ returned' = IF isValidGridCoords(gridWidth, gridHeight, c) THEN <<>> ELSE returned
    /\ UNCHANGED <<gameVars, gridWidth, gridHeight, enemySpawns, enemies>>

\* setPlayerBase(gridX, gridY, entity)
SetPlayerBase(c) ==
    /\ call' = Call("setPlayerBase", c, NoArg, FALSE, -1, FALSE, NoPath)
    /\ IF isValidGridCoords(gridWidth, gridHeight, c)
       THEN /\ playerBase' = c
            /\ grid' = setCellTypeGrid(grid, gridWidth, gridHeight, c, PLAYER_BASE)
            /\ pathCache' = setCellTypeCache(gridWidth, gridHeight, pathCache, c)
            /\ emitted' = setCellTypeEvents(gridWidth, gridHeight, c, PLAYER_BASE)
            /\ returned' = <<>>
       ELSE UNCHANGED <<playerBase, grid, pathCache, returned>> /\ emitted' = <<>>
    /\ UNCHANGED <<gameVars, gridWidth, gridHeight, enemySpawns, enemies>>

\* addEnemySpawn(gridX, gridY, entity)
AddEnemySpawn(c) ==
    /\ call' = Call("addEnemySpawn", c, NoArg, FALSE, -1, FALSE, NoPath)
    /\ IF isValidGridCoords(gridWidth, gridHeight, c)
       THEN /\ enemySpawns' = Append(enemySpawns, c)
            /\ grid' = setCellTypeGrid(grid, gridWidth, gridHeight, c, ENEMY_SPAWN)
            /\ pathCache' = setCellTypeCache(gridWidth, gridHeight, pathCache, c)
            /\ emitted' = setCellTypeEvents(gridWidth, gridHeight, c, ENEMY_SPAWN)
            /\ returned' = <<>>
       ELSE UNCHANGED <<enemySpawns, grid, pathCache, returned>> /\ emitted' = <<>>
    /\ UNCHANGED <<gameVars, gridWidth, gridHeight, playerBase, enemies>>

\* addObstacle that does not look at what the cell holds
AddObstacle_Overwrites(c) ==
    IF isValidGridCoords(gridWidth, gridHeight, c)
    THEN /\ call' = Call("addObstacle", c, NoArg, FALSE, -1, TRUE, NoPath)
         /\ grid' = setCellTypeGrid(grid, gridWidth, gridHeight, c, OBSTACLE)
         /\ pathCache' = setCellTypeCache(gridWidth, gridHeight, pathCache, c)
         /\ emitted' = setCellTypeEvents(gridWidth, gridHeight, c, OBSTACLE)
         /\ returned' = <<>>
         /\ UNCHANGED <<gameVars,
                        gridWidth, gridHeight, playerBase, enemySpawns, enemies>>
    ELSE /\ call' = Call("addObstacle", c, NoArg, FALSE, -1, FALSE, NoPath)
         /\ emitted' = <<>>
         /\ UNCHANGED <<gameVars, gridWidth, gridHeight, grid, pathCache, playerBase,
                        enemySpawns, enemies, returned>>

\* addObstacle(gridX, gridY)
AddObstacle(c) ==
    IF isValidGridCoords(gridWidth, gridHeight, c) /\ grid[c] = EMPTY
    THEN /\ call' = Call("addObstacle", c, NoArg, FALSE, -1, TRUE, NoPath)
         /\ grid' = setCellTypeGrid(grid, gridWidth, gridHeight, c, OBSTACLE)
         /\ pathCache' = setCellTypeCache(gridWidth, gridHeight, pathCache, c)
         /\ emitted' = setCellTypeEvents(gridWidth, gridHeight, c, OBSTACLE)
         /\ returned' = <<>>
         /\ UNCHANGED <<gameVars,
                        gridWidth, gridHeight, playerBase, enemySpawns, enemies>>
    ELSE /\ call' = Call("addObstacle", c, NoArg, FALSE, -1, FALSE, NoPath)
         /\ emitted' = <<>>
         /\ UNCHANGED <<gameVars, gridWidth, gridHeight, grid, pathCache, playerBase,
                        enemySpawns, enemies, returned>>

\* canPlaceTower making its simulated write through setCellType, which
\* emits mapChanged for the simulated tower
CanPlaceTower_Notifies(c) ==
    /\ call' = Call("canPlaceTower", c, NoArg, FALSE, -1,
                    canPlaceTowerResult(grid, gridWidth, gridHeight, pathCache,
                                        enemySpawns, playerBase, c),
                    NoPath)
    /\ grid' = canPlaceTowerGrid(grid, gridWidth, gridHeight, playerBase, c)
    /\ pathCache' = canPlaceTowerCache(grid, gridWidth, gridHeight, pathCache,
                                       enemySpawns, playerBase, c)
    /\ emitted' = IF isCellPassable(grid, gridWidth, gridHeight, c, FALSE)
                  THEN setCellTypeEvents(gridWidth, gridHeight, c, TOWER)
                  ELSE <<>>
    /\ UNCHANGED <<gameVars,
                   gridWidth, gridHeight, playerBase, enemySpawns, enemies, returned>>

\* canPlaceTower answering for the cell alone when no base is set
CanPlaceTower_IgnoresBase(c) ==
    /\ call' = Call("canPlaceTower", c, NoArg, FALSE, -1,
                    IF playerBase = NoBase
                    THEN isCellPassable(grid, gridWidth, gridHeight, c, FALSE)
                    ELSE canPlaceTowerResult(grid, gridWidth, gridHeight, pathCache,
                                             enemySpawns, playerBase, c),
                    NoPath)
    /\ grid' = canPlaceTowerGrid(grid, gridWidth, gridHeight, playerBase, c)
    /\ pathCache' = canPlaceTowerCache(grid, gridWidth, gridHeight, pathCache,
                                       enemySpawns, playerBase, c)
    /\ emitted' = <<>>
    /\ UNCHANGED <<gameVars,
                   gridWidth, gridHeight, playerBase, enemySpawns, enemies, returned>>

\* canPlaceTower(gridX, gridY)
CanPlaceTower(c) ==
    /\ call' = Call("canPlaceTower", c, NoArg, FALSE, -1,
                    canPlaceTowerResult(grid, gridWidth, gridHeight, pathCache,
                                        enemySpawns, playerBase, c),
                    NoPath)
    /\ grid' = canPlaceTowerGrid(grid, gridWidth, gridHeight, playerBase, c)
    /\ pathCache' = canPlaceTowerCache(grid, gridWidth, gridHeight, pathCache,
                                       enemySpawns, playerBase, c)
    /\ emitted' = <<>>
    /\ UNCHANGED <<gameVars,
                   gridWidth, gridHeight, playerBase, enemySpawns, enemies, returned>>

\* placeTower that checks the cell but not the paths
PlaceTower_Unchecked(c) ==
    IF isCellPassable(grid, gridWidth, gridHeight, c, FALSE)
    THEN /\ call' = Call("placeTower", c, NoArg, FALSE, -1, TRUE, NoPath)
         /\ grid' = setCellTypeGrid(grid, gridWidth, gridHeight, c, TOWER)
         /\ pathCache' = <<>>
         /\ emitted' = setCellTypeEvents(gridWidth, gridHeight, c, TOWER)
                           \o <<MapStructureChanged>>
         /\ returned' = <<>>
         /\ UNCHANGED <<gameVars,
                        gridWidth, gridHeight, playerBase, enemySpawns, enemies>>
    ELSE /\ call' = Call("placeTower", c, NoArg, FALSE, -1, FALSE, NoPath)
         /\ emitted' = <<>>
         /\ UNCHANGED <<gameVars, gridWidth, gridHeight, grid, pathCache, playerBase,
                        enemySpawns, enemies, returned>>

\* placeTower that first asks whether every active enemy keeps a path from
\* the cell it is in and refuses at once when one does not (the
\* requestEnemyPathValidation the source leaves commented out)
PlaceTower_ChecksEnemies(c) ==
    LET enemiesKeepPath ==
            \/ ~isValidGridCoords(gridWidth, gridHeight, c)
            \/ \A i \in 1 .. Len(enemies) :
                  enemies[i].isActive
                     => Search(SimulatedGrid(grid, c), gridWidth, gridHeight,
                               enemies[i].pos, enemies[i].target).found
        can == canPlaceTowerResult(grid, gridWidth, gridHeight, pathCache,
                                   enemySpawns, playerBase, c)
        g1 == canPlaceTowerGrid(grid, gridWidth, gridHeight, playerBase, c)
        c1 == canPlaceTowerCache(grid, gridWidth, gridHeight, pathCache,
                                 enemySpawns, playerBase, c)
        g2 == setCellTypeGrid(g1, gridWidth, gridHeight, c, TOWER)
        c2 == invalidatePathCache(setCellTypeCache(gridWidth, gridHeight, c1, c))
        upd == updateAllEnemyPaths(g2, gridWidth, gridHeight, c2, enemies, 1)
    IN IF ~enemiesKeepPath
       THEN /\ call' = Call("placeTower", c, NoArg, FALSE, -1, FALSE, NoPath)
            /\ emitted' = <<>>
            /\ UNCHANGED <<gameVars, gridWidth, gridHeight, grid, pathCache, playerBase,
                           enemySpawns, enemies, returned>>
       ELSE IF can
       THEN /\ call' = Call("placeTower", c, NoArg, FALSE, -1, TRUE, NoPath)
            /\ grid' = g2
            /\ pathCache' = upd.cache
            /\ enemies' = upd.enemies
            /\ emitted' = setCellTypeEvents(gridWidth, gridHeight, c, TOWER)
                              \o <<MapStructureChanged>>
            /\ returned' = <<>>
            /\ UNCHANGED <<gameVars, gridWidth, gridHeight, playerBase, enemySpawns>>
       ELSE /\ call' = Call("placeTower", c, NoArg, FALSE, -1, FALSE, NoPath)
            /\ grid' = g1
            /\ pathCache' = c1
            /\ emitted' = <<>>
            /\ UNCHANGED <<gameVars,
                           gridWidth, gridHeight, playerBase, enemySpawns, enemies,
                           returned>>

\* placeTower emitting mapStructureChanged before it writes the cell and
\* clears the cache: the listener runs on the grid and the cache of before
PlaceTower_EmitsFirst(c) ==
    LET can == canPlaceTowerResult(grid, gridWidth, gridHeight, pathCache,
                                   enemySpawns, playerBase, c)
        g1 == canPlaceTowerGrid(grid, gridWidth, gridHeight, playerBase, c)
        c1 == canPlaceTowerCache(grid, gridWidth, gridHeight, pathCache,
                                 enemySpawns, playerBase, c)
        upd == updateAllEnemyPaths(g1, gridWidth, gridHeight, c1, enemies, 1)
    IN IF can
       THEN /\ call' = Call("placeTower", c, NoArg, FALSE, -1, TRUE, NoPath)
            /\ grid' = setCellTypeGrid(g1, gridWidth, gridHeight, c, TOWER)
            /\ pathCache' = invalidatePathCache(upd.cache)
            /\ enemies' = upd.enemies
            /\ emitted' = <<MapStructureChanged>>
                              \o setCellTypeEvents(gridWidth, gridHeight, c, TOWER)
            /\ returned' = <<>>
            /\ UNCHANGED <<gameVars, gridWidth, gridHeight, playerBase, enemySpawns>>
       ELSE /\ call' = Call("placeTower", c, NoArg, FALSE, -1, FALSE, NoPath)
            /\ grid' = g1
            /\ pathCache' = c1
            /\ emitted' = <<>>
            /\ UNCHANGED <<gameVars,
                           gridWidth, gridHeight, playerBase, enemySpawns, enemies,
                           returned>>

\* placeTower(gridX, gridY, towerEntity): canPlaceTower, then setCellType,
\* invalidatePathCache and the mapStructureChanged notification, which the
\* EnemyManager's listener answers with updateAllEnemyPaths
PlaceTower(c) ==
    LET can == canPlaceTowerResult(grid, gridWidth, gridHeight, pathCache,
                                   enemySpawns, playerBase, c)
        g1 == canPlaceTowerGrid(grid, gridWidth, gridHeight, playerBase, c)
        c1 == canPlaceTowerCache(grid, gridWidth, gridHeight, pathCache,
                                 enemySpawns, playerBase, c)
        g2 == setCellTypeGrid(g1, gridWidth, gridHeight, c, TOWER)
        c2 == invalidatePathCache(setCellTypeCache(gridWidth, gridHeight, c1, c))
        upd == updateAllEnemyPaths(g2, gridWidth, gridHeight, c2, enemies, 1)
    IN IF can
       THEN /\ call' = Call("placeTower", c, NoArg, FALSE, -1, TRUE, NoPath)
            /\ grid' = g2
            /\ pathCache' = upd.cache
            /\ enemies' = upd.enemies
            /\ emitted' = setCellTypeEvents(gridWidth, gridHeight, c, TOWER)
                              \o <<MapStructureChanged>>
            /\ returned' = <<>>
            /\ UNCHANGED <<gameVars, gridWidth, gridHeight, playerBase, enemySpawns>>
       ELSE /\ call' = Call("placeTower", c, NoArg, FALSE, -1, FALSE, NoPath)
            /\ grid' = g1
            /\ pathCache' = c1
            /\ emitted' = <<>>
            /\ UNCHANGED <<gameVars,
                           gridWidth, gridHeight, playerBase, enemySpawns, enemies,
                           returned>>

\* removeTower that also clears an obstacle
RemoveTower_AnyBlocked(c) ==
    IF isValidGridCoords(gridWidth, gridHeight, c) /\ grid[c] \in {TOWER, OBSTACLE}
    THEN LET g2 == setCellTypeGrid(grid, gridWidth, gridHeight, c, EMPTY)
             c2 == invalidatePathCache(
                       setCellTypeCache(gridWidth, gridHeight, pathCache, c))
             upd == updateAllEnemyPaths(g2, gridWidth, gridHeight, c2, enemies, 1)
         IN /\ call' = Call("removeTower", c, NoArg, FALSE, -1, TRUE, NoPath)
            /\ grid' = g2
            /\ pathCache' = upd.cache
            /\ enemies' = upd.enemies
            /\ emitted' = setCellTypeEvents(gridWidth, gridHeight, c, EMPTY)
                              \o <<MapStructureChanged>>
            /\ returned' = <<>>
            /\ UNCHANGED <<gameVars, gridWidth, gridHeight, playerBase, enemySpawns>>
    ELSE /\ call' = Call("removeTower", c, NoArg, FALSE, -1, FALSE, NoPath)
         /\ emitted' = <<>>
         /\ UNCHANGED <<gameVars, gridWidth, gridHeight, grid, pathCache, playerBase,
                        enemySpawns, enemies, returned>>

\* removeTower(gridX, gridY)
RemoveTower(c) ==
    IF isValidGridCoords(gridWidth, gridHeight, c) /\ grid[c] = TOWER
    THEN LET g2 == setCellTypeGrid(grid, gridWidth, gridHeight, c, EMPTY)
             c2 == invalidatePathCache(
                       setCellTypeCache(gridWidth, gridHeight, pathCache, c))
             upd == updateAllEnemyPaths(g2, gridWidth, gridHeight, c2, enemies, 1)
         IN /\ call' = Call("removeTower", c, NoArg, FALSE, -1, TRUE, NoPath)
            /\ grid' = g2
            /\ pathCache' = upd.cache
            /\ enemies' = upd.enemies
            /\ emitted' = setCellTypeEvents(gridWidth, gridHeight, c, EMPTY)
                              \o <<MapStructureChanged>>
            /\ returned' = <<>>
            /\ UNCHANGED <<gameVars, gridWidth, gridHeight, playerBase, enemySpawns>>
    ELSE /\ call' = Call("removeTower", c, NoArg, FALSE, -1, FALSE, NoPath)
         /\ emitted' = <<>>
         /\ UNCHANGED <<gameVars, gridWidth, gridHeight, grid, pathCache, playerBase,
                        enemySpawns, enemies, returned>>

\* what findPath(startX, startY, endX, endY, forceRecalculate) does to the map
FindPathCall(start, end, forceRecalculate) ==
    /\ call' = Call("findPath", start, end, forceRecalculate, -1, FALSE,
                    findPathResult(grid, gridWidth, gridHeight, pathCache,
                                   start, end, forceRecalculate))
    /\ pathCache' = findPathCache(grid, gridWidth, gridHeight, pathCache,
                                  start, end, forceRecalculate)
    /\ emitted' = <<>>
    /\ UNCHANGED <<gameVars,
                   gridWidth, gridHeight, grid, playerBase, enemySpawns, enemies>>

\* findPath(startX, startY, endX, endY, forceRecalculate)
FindPath(start, end, forceRecalculate) ==
    FindPathCall(start, end, forceRecalculate) /\ UNCHANGED returned

\* findPath, with what a call without bypass returned kept for its caller to
\* compare the next call with
FindPathRecorded(start, end, forceRecalculate) ==
    /\ FindPathCall(start, end, forceRecalculate)
    /\ returned' = IF forceRecalculate THEN returned
                   ELSE CachePut(returned, CacheKey(start, end),
                                 findPathResult(grid, gridWidth, gridHeight, pathCache,
                                                start, end, forceRecalculate))

\* enemyManager.addEnemy(new BasicEnemy(mapSystem, start, target, enemyManager)),
\* as the wave spawner does for a spawn point and the player base
AddEnemy(start, target) ==
    LET r == NewEnemy(grid, gridWidth, gridHeight, pathCache, start, target)
    IN /\ Len(enemies) < MaxEnemies
       /\ call' = Call("addEnemy", start, target, FALSE, -1, FALSE, r.enemy.path)
       /\ enemies' = Append(enemies, r.enemy)
       /\ pathCache' = r.cache
       /\ emitted' = <<>>
       /\ UNCHANGED <<gameVars,
                      gridWidth, gridHeight, grid, playerBase, enemySpawns, returned>>

\* waveManager._spawnEnemyFromGroup(group) for a group of BasicEnemy, called
\* from WaveManager.update once the base target is known
SpawnEnemyFromGroup ==
    LET r == spawnEnemyFromGroup(grid, gridWidth, gridHeight, pathCache, enemies,
                                 getEnemySpawnCoords(enemySpawns), playerBase, 1)
    IN /\ playerBase # NoBase
       /\ Len(enemies) + Len(enemySpawns) <= MaxWaveEnemies
       /\ call' = Call("spawnEnemyFromGroup", NoArg, NoArg, FALSE, -1, FALSE, NoPath)
       /\ enemies' = r.enemies
       /\ pathCache' = r.cache
       /\ emitted' = <<>>
       /\ wave' = IF Len(enemySpawns) = 0 THEN [wave EXCEPT !.isSpawning = FALSE] ELSE wave
       /\ UNCHANGED <<gridWidth, gridHeight, grid, playerBase, enemySpawns, returned,
                      playerBaseHp, cash, placing, events, departed>>

\* what enemyManager.updateEnemies(dt) leaves, st being the state its loop ends in
UpdateEnemiesTo(st) ==
    /\ enemies' = st.enemies
    /\ pathCache' = st.cache
    /\ playerBaseHp' = st.hp
    /\ emitted' = st.emitted
    /\ departed' = st.departed

\* enemyManager.updateEnemies(dt), dt taking each enemy as far as outcomes says
UpdateEnemies(outcomes) ==
    /\ Len(enemies) > 0
    /\ call' = Call("updateEnemies", NoArg, NoArg, FALSE, -1, FALSE, NoPath)
    /\ UpdateEnemiesTo(updateEnemies(grid, gridWidth, gridHeight,
                                     [enemies |-> enemies, cache |-> pathCache,
                                      hp |-> playerBaseHp, emitted |-> <<>>,
                                      departed |-> departed],
                                     outcomes, Len(enemies)))
    /\ UNCHANGED <<gridWidth, gridHeight, grid, playerBase, enemySpawns, returned,
                   cash, placing, wave, events>>

\* what a call leaves that changed the enemies to es and the departed enemies
\* to ds: each new call of handleEnemyDefeated has added cashValue
SettleTo(es, ds) ==
    /\ enemies' = es
    /\ departed' = SelectSeq(ds, LAMBDA e : e.incoming > 0)
    /\ cash' = cash + CashValue * (Defeats(es) + Defeats(ds) - Defeats(enemies) - Defeats(departed))
    /\ cash' <= MaxCash
    /\ emitted' = addCashEvents(cash, Defeats(es) + Defeats(ds) - Defeats(enemies) - Defeats(departed))

\* CannonTower.shoot(): munitionsManager.addMunition creates a BasicBullet
\* whose target is the tower's currentTarget, an active enemy of the list
Shoot(i) ==
    /\ enemies[i].isActive
    /\ Incoming(enemies) + Incoming(departed) < MaxBullets
    /\ call' = Call("shoot", enemies[i].pos, NoArg, FALSE, -1, FALSE, NoPath)
    /\ enemies' = [enemies EXCEPT ![i].incoming = enemies[i].incoming + 1]
    /\ emitted' = <<>>
    /\ UNCHANGED <<gridWidth, gridHeight, grid, pathCache, playerBase, enemySpawns, returned,
                   playerBaseHp, cash, placing, wave, events, departed>>

\* what munitionsManager.updateMunitions(dt) leaves, ts being the enemies of
\* the list followed by the departed ones
UpdateMunitionsTo(ts) ==
    SettleTo(SubSeq(ts, 1, Len(enemies)), SubSeq(ts, Len(enemies) + 1, Len(ts)))

\* munitionsManager.updateMunitions(dt), dt taking the bullets in flight as
\* far as outcomes says
UpdateMunitions(outcomes) ==
    /\ Incoming(enemies) + Incoming(departed) > 0
    /\ call' = Call("updateMunitions", NoArg, NoArg, FALSE, -1, FALSE, NoPath)
    /\ UpdateMunitionsTo(updateMunitions(enemies \o departed, CannonDamage, outcomes))
    /\ UNCHANGED <<gridWidth, gridHeight, grid, pathCache, playerBase, enemySpawns, returned,
                   playerBaseHp, placing, wave, events>>

\* enemy.takeDamage(amount) called on enemy number i of the list
TakeDamage_Unguarded(i, amount) ==
    /\ call' = Call("takeDamage", enemies[i].pos, NoArg, FALSE, amount, FALSE, NoPath)
    /\ SettleTo([enemies EXCEPT ![i] = takeDamage_Unguarded(enemies[i], amount)], departed)
    /\ UNCHANGED <<gridWidth, gridHeight, grid, pathCache, playerBase, enemySpawns, returned,
                   playerBaseHp, placing, wave, events>>

TakeDamage(i, amount) ==
    /\ call' = Call("takeDamage", enemies[i].pos, NoArg, FALSE, amount, FALSE, NoPath)
    /\ SettleTo([enemies EXCEPT ![i] = takeDamage(enemies[i], amount)], departed)
    /\ UNCHANGED <<gridWidth, gridHeight, grid, pathCache, playerBase, enemySpawns, returned,
                   playerBaseHp, placing, wave, events>>

\* towerPlacementSystem.registerTowerType('CannonTower', CannonTower, stats)
RegisterTowerType(stats) ==
    /\ call' = Call("registerTowerType", NoArg, NoArg, FALSE, stats, FALSE, NoPath)
    /\ placing' = [placing EXCEPT !.towerTypes = {"CannonTower"},
                                  !.typeCost = registeredCost(stats)]
    /\ emitted' = <<>>
    /\ UNCHANGED <<gridWidth, gridHeight, grid, pathCache, playerBase, enemySpawns, enemies,
                   returned, playerBaseHp, cash, wave, events, departed>>

\* the listener of 'selectTowerType', called with typeName 'CannonTower'
SelectTowerType ==
    /\ call' = Call("selectTowerType", NoArg, NoArg, FALSE, -1, FALSE, NoPath)
    /\ placing' = IF "CannonTower" \in placing.towerTypes
                  THEN [placing EXCEPT !.isPlacingTower = TRUE, !.cost = placing.typeCost]
                  ELSE placing
    /\ emitted' = <<>>
    /\ UNCHANGED <<gridWidth, gridHeight, grid, pathCache, playerBase, enemySpawns, enemies,
                   returned, playerBaseHp, cash, wave, events, departed>>

\* the listeners of 'keydown:escape' and 'contextmenu'
CancelPlacement ==
    /\ call' = Call("cancelPlacement", NoArg, NoArg, FALSE, -1, FALSE, NoPath)
    /\ placing' = IF placing.isPlacingTower THEN cancelPlacement(placing) ELSE placing
    /\ emitted' = IF placing.isPlacingTower THEN <<TowerPlacementCancelled>> ELSE <<>>
    /\ UNCHANGED <<gridWidth, gridHeight, grid, pathCache, playerBase, enemySpawns, enemies,
                   returned, playerBaseHp, cash, wave, events, departed>>

\* the listener of 'mousemove', the mouse being over grid cell c
MouseMove(c) ==
    /\ call' = Call("mousemove", c, NoArg, FALSE, -1, FALSE, NoPath)
    /\ emitted' = <<>>
    /\ IF placing.isPlacingTower /\ c # placing.hover
       THEN IF isValidGridCoords(gridWidth, gridHeight, c)
            THEN /\ placing' = [placing EXCEPT
                                   !.hover = c,
                                   !.canPlaceAtCurrentHover =
                                       canPlaceTowerResult(grid, gridWidth, gridHeight, pathCache,
                                                           enemySpawns, playerBase, c)]
                 /\ grid' = canPlaceTowerGrid(grid, gridWidth, gridHeight, playerBase, c)
                 /\ pathCache' = canPlaceTowerCache(grid, gridWidth, gridHeight, pathCache,
                                                    enemySpawns, playerBase, c)
            ELSE /\ placing' = [placing EXCEPT !.hover = c, !.canPlaceAtCurrentHover = FALSE]
                 /\ UNCHANGED <<grid, pathCache>>
       ELSE UNCHANGED <<placing, grid, pathCache>>
    /\ UNCHANGED <<gridWidth, gridHeight, playerBase, enemySpawns, enemies,
                   returned, playerBaseHp, cash, wave, events, departed>>

\* _attemptPlaceTower after mapSystem.placeTower(c) has left pt and the cash
\* is c2: 'towerPlaced' is emitted; a player who cannot afford another tower
\* leaves the placing mode, otherwise canPlaceTower is asked for the hovered cell
AfterPlaceTower(c, c2, pt) ==
    /\ cash' = c2
    /\ enemies' = pt.upd.enemies
    /\ IF ~hasEnoughCash(c2, towerCost(placing.cost))
       THEN /\ placing' = cancelPlacement(placing)
            /\ grid' = pt.grid
            /\ pathCache' = pt.upd.cache
            /\ emitted' = spendCashEvents(cash, towerCost(placing.cost)) \o pt.emitted
                              \o <<TowerPlaced(c), TowerPlacementCancelled>>
       ELSE /\ placing' = [placing EXCEPT
                              !.canPlaceAtCurrentHover =
                                  canPlaceTowerResult(pt.grid, gridWidth, gridHeight,
                                                      pt.upd.cache, enemySpawns, playerBase,
                                                      placing.hover)]
            /\ grid' = canPlaceTowerGrid(pt.grid, gridWidth, gridHeight, playerBase,
                                         placing.hover)
            /\ pathCache' = canPlaceTowerCache(pt.grid, gridWidth, gridHeight, pt.upd.cache,
                                               enemySpawns, playerBase, placing.hover)
            /\ emitted' = spendCashEvents(cash, towerCost(placing.cost)) \o pt.emitted
                              \o <<TowerPlaced(c)>>

\* the listener of 'click', left button, the mouse being over grid cell c:
\* _attemptPlaceTower
Click(c) ==
    /\ call' = Call("click", c, NoArg, FALSE, -1, FALSE, NoPath)
    /\ IF ~placing.isPlacingTower \/ ~isValidGridCoords(gridWidth, gridHeight, c)
       THEN /\ emitted' = <<>>
            /\ UNCHANGED <<grid, pathCache, enemies, cash, placing>>
       ELSE IF ~canPlaceTowerResult(grid, gridWidth, gridHeight, pathCache,
                                    enemySpawns, playerBase, c)
       THEN /\ grid' = canPlaceTowerGrid(grid, gridWidth, gridHeight, playerBase, c)
            /\ pathCache' = canPlaceTowerCache(grid, gridWidth, gridHeight, pathCache,
                                               enemySpawns, playerBase, c)
            /\ emitted' = <<>>
            /\ UNCHANGED <<enemies, cash, placing>>
       ELSE IF ~hasEnoughCash(cash, towerCost(placing.cost))
       THEN /\ grid' = canPlaceTowerGrid(grid, gridWidth, gridHeight, playerBase, c)
            /\ pathCache' = canPlaceTowerCache(grid, gridWidth, gridHeight, pathCache,
                                               enemySpawns, playerBase, c)
            /\ placing' = cancelPlacement(placing)
            /\ emitted' = <<TowerPlacementCancelled>>
            /\ UNCHANGED <<enemies, cash>>
       ELSE AfterPlaceTower(c, spendCash(cash, towerCost(placing.cost)),
                            placeTower(canPlaceTowerGrid(grid, gridWidth, gridHeight,
                                                         playerBase, c),
                                       gridWidth, gridHeight,
                                       canPlaceTowerCache(grid, gridWidth, gridHeight,
                                                          pathCache, enemySpawns,
                                                          playerBase, c),
                                       enemySpawns, playerBase, enemies, c))
    /\ UNCHANGED <<gridWidth, gridHeight, playerBase, enemySpawns,
                   returned, playerBaseHp, wave, events, departed>>

\* waveManager.setPlayerBaseTarget(playerBase), and the listener of
\* 'playerBaseInitialized'
SetPlayerBaseTarget ==
    /\ playerBase # NoBase
    /\ call' = Call("setPlayerBaseTarget", playerBase, NoArg, FALSE, -1, FALSE, NoPath)
    /\ wave' = [wave EXCEPT !.target = playerBase]
    /\ emitted' = <<>>
    /\ UNCHANGED <<gridWidth, gridHeight, grid, pathCache, playerBase, enemySpawns, enemies,
                   returned, playerBaseHp, cash, placing, events, departed>>

\* waveManager.start()
WaveStart ==
    /\ call' = Call("start", NoArg, NoArg, FALSE, -1, FALSE, NoPath)
    /\ wave' = waveStart(wave)
    /\ emitted' = <<>>
    /\ UNCHANGED <<gridWidth, gridHeight, grid, pathCache, playerBase, enemySpawns, enemies,
                   returned, playerBaseHp, cash, placing, events, departed>>

\* waveManager.stop()
WaveStop ==
    /\ call' = Call("stop", NoArg, NoArg, FALSE, -1, FALSE, NoPath)
    /\ wave' = waveStop(wave)
    /\ emitted' = <<>>
    /\ UNCHANGED <<gridWidth, gridHeight, grid, pathCache, playerBase, enemySpawns, enemies,
                   returned, playerBaseHp, cash, placing, events, departed>>

\* what the spawning branch of update leaves, r being what
\* _spawnEnemyFromGroup has made of the enemies and the cache
WaveSpawnedTo(r) ==
    /\ enemies' = withMods(r.enemies, Len(enemySpawns),
                           currentGroups(wave)[wave.groupIndex + 1].hpTenths)
    /\ pathCache' = r.cache
    /\ wave' = afterSpawn(wave, Len(enemySpawns))
    /\ emitted' = <<>>

\* waveManager.update(dt); due says whether dt takes the timer of the branch
\* (timeSinceLastSpawn or timeToNextWave) to its mark
WaveUpdate(due) ==
    /\ call' = Call("update", NoArg, NoArg, FALSE, -1, due, NoPath)
    /\ IF ~wave.isRunning \/ wave.target = NoBase
       THEN /\ emitted' = <<>>
            /\ UNCHANGED <<enemies, pathCache, wave>>
       ELSE IF wave.isSpawning
       THEN IF due
            THEN WaveSpawnedTo(spawnEnemyFromGroup(grid, gridWidth, gridHeight, pathCache,
                                                   enemies, getEnemySpawnCoords(enemySpawns),
                                                   wave.target, 1))
            ELSE /\ emitted' = <<>>
                 /\ UNCHANGED <<enemies, pathCache, wave>>
       ELSE IF /\ Len(enemies) = 0
               /\ wave.currentWaveNumber > 0
               /\ wave.currentWaveNumber >= Len(WaveDefinitions)
       THEN /\ wave' = waveStop(wave)
            /\ emitted' = <<AllWavesCleared>>
            /\ UNCHANGED <<enemies, pathCache>>
       ELSE IF (Len(enemies) = 0 \/ wave.currentWaveNumber = 0) /\ due
       THEN /\ wave' = startNextWave(wave)
            /\ emitted' = IF wave.currentWaveNumber >= Len(WaveDefinitions) THEN <<>>
                          ELSE <<WaveStarted(wave.currentWaveNumber + 1)>>
            /\ UNCHANGED <<enemies, pathCache>>
       ELSE /\ emitted' = <<>>
            /\ UNCHANGED <<enemies, pathCache, wave>>
    /\ UNCHANGED <<gridWidth, gridHeight, grid, playerBase, enemySpawns,
                   returned, playerBaseHp, cash, placing, events, departed>>

\* the model follows the enemy list up to MaxWaveEnemies enemies
EnemyBound == Len(enemies') <= MaxWaveEnemies

\* eventEmitter.once(eventName, listener), listener being of the kind given
Once(kind) ==
    /\ Len(events.invoked) < MaxListeners
    /\ call' = Call("once", NoArg, NoArg, FALSE, -1, FALSE, NoPath)
    /\ events' = once(events, kind)
    /\ emitted' = <<>>
    /\ UNCHANGED <<gridWidth, gridHeight, grid, pathCache, playerBase, enemySpawns, enemies,
                   returned, playerBaseHp, cash, placing, wave, departed>>

\* eventEmitter.emit(eventName)
Emit ==
    /\ call' = Call("emit", NoArg, NoArg, FALSE, -1, FALSE, NoPath)
    /\ events' = emit(events)
    /\ emitted' = <<>>
    /\ UNCHANGED <<gridWidth, gridHeight, grid, pathCache, playerBase, enemySpawns, enemies,
                   returned, playerBaseHp, cash, placing, wave, departed>>

\* the model follows the cache up to MaxCache entries
CacheBound == Cardinality(DOMAIN pathCache') <= MaxCache

\* the number of registered spawns explored
SpawnBound == Len(enemySpawns) < MaxSpawns

\* the calls made on the map alone: it is set up, towers are checked, placed
\* and removed, and paths to the base are asked for
Next ==
    \/ \E c \in Coords(gridWidth, gridHeight) : SetPlayerBase(c)
    \/ \E c \in Coords(gridWidth, gridHeight) : SpawnBound /\ AddEnemySpawn(c)
    \/ \E c \in Coords(gridWidth, gridHeight) : AddObstacle(c)
    \/ \E c \in Coords(gridWidth, gridHeight) : CanPlaceTower(c) /\ CacheBound
    \/ \E c \in Coords(gridWidth, gridHeight) : PlaceTower(c) /\ CacheBound
    \/ \E c \in Coords(gridWidth, gridHeight) : RemoveTower(c) /\ CacheBound
    \/ \E s \in Coords(gridWidth, gridHeight), f \in BOOLEAN :
          playerBase # NoBase /\ FindPath(s, playerBase, f) /\ CacheBound

Spec == Init /\ [][Next]_vars

----------------------------------------------------------------------------
(* The map with the EnemyManager subscribed to mapStructureChanged *)

\* the calls that change the map, and the wave spawner creating an enemy at
\* a spawn point with the player base as its target
NextGame ==
    \/ \E c \in Coords(gridWidth, gridHeight) : SetPlayerBase(c)
    \/ \E c \in Coords(gridWidth, gridHeight) : SpawnBound /\ AddEnemySpawn(c)
    \/ \E c \in Coords(gridWidth, gridHeight) : AddObstacle(c)
    \/ \E c \in Coords(gridWidth, gridHeight) : PlaceTower(c) /\ CacheBound
    \/ \E c \in Coords(gridWidth, gridHeight) : RemoveTower(c) /\ CacheBound
    \/ \E i \in 1 .. Len(enemySpawns) :
          playerBase # NoBase /\ AddEnemy(enemySpawns[i], playerBase) /\ CacheBound

SpecGame == Init /\ [][NextGame]_vars

----------------------------------------------------------------------------
(* Enemies walking to the base while towers are placed and removed *)

\* how far an update takes an enemy
Outcomes == {"stay", "cross", "arrive"}

\* the cells the player points at: the two cells next to the spawn and a cell
\* of the bottom edge
TowerSites == {<<0, 1>>, <<1, 0>>, <<1, 2>>}

\* the 3 x 3 map after setPlayerBase(2, 2) and addEnemySpawn(0, 0)
InitFlight ==
    /\ gridWidth = 3 /\ gridHeight = 3
    /\ playerBase = <<2, 2>>
    /\ enemySpawns = << <<0, 0>> >>
    /\ grid = [c \in Cells(3, 3) |->
                  IF c = <<2, 2>> THEN PLAYER_BASE
                  ELSE IF c = <<0, 0>> THEN ENEMY_SPAWN ELSE EMPTY]
    /\ pathCache = <<>>
    /\ enemies = <<>>
    /\ call = Call("new", NoArg, NoArg, FALSE, -1, FALSE, NoPath)
    /\ emitted = <<>>
    /\ returned = <<>>
    /\ InitEntities

\* the wave spawner creates enemies at the spawn, the game loop updates them,
\* and the player places and removes towers
NextFlight ==
    \/ \E i \in 1 .. Len(enemySpawns) :
          AddEnemy(enemySpawns[i], playerBase) /\ CacheBound
    \/ \E outcomes \in [1 .. Len(enemies) -> Outcomes] :
          UpdateEnemies(outcomes) /\ CacheBound
    \/ \E c \in TowerSites : PlaceTower(c) /\ CacheBound
    \/ \E c \in TowerSites : RemoveTower(c) /\ CacheBound

SpecFlight == InitFlight /\ [][NextFlight]_vars

----------------------------------------------------------------------------
(* A caller that asks for the same path again and compares the answers *)

\* the map is set up, placements are checked, and paths to the base are
\* asked for with and without bypass
NextCache ==
    \/ \E c \in Cells(gridWidth, gridHeight) : SetPlayerBase(c)
    \/ \E c \in Cells(gridWidth, gridHeight) : SpawnBound /\ AddEnemySpawn(c)
    \/ \E c \in Cells(gridWidth, gridHeight) : AddObstacle(c)
    \/ \E c \in Cells(gridWidth, gridHeight) : CanPlaceTower(c) /\ CacheBound
    \/ \E s \in Cells(gridWidth, gridHeight), f \in BOOLEAN :
          playerBase # NoBase /\ FindPathRecorded(s, playerBase, f) /\ CacheBound

SpecCache == Init /\ [][NextCache]_vars



\* the writes of a cell, at any coordinate and with any cell type, and the
\* findPath calls that fill the cache
NextCell ==
    \/ \E c \in Coords(gridWidth, gridHeight), type \in CellTypes : SetCellType(c, type)
    \/ \E s \in Cells(gridWidth, gridHeight), e \in Cells(gridWidth, gridHeight) :
          FindPath(s, e, FALSE) /\ CacheBound

SpecCell == Init /\ [][NextCell]_vars

----------------------------------------------------------------------------
(* The map is set up and a wave spawns its enemies *)

NextWave ==
    \/ \E c \in Cells(gridWidth, gridHeight) : SetPlayerBase(c)
    \/ \E c \in Cells(gridWidth, gridHeight) :
          Len(enemySpawns) < MaxSetupSpawns /\ AddEnemySpawn(c)
    \/ SpawnEnemyFromGroup

SpecWave == Init /\ [][NextWave]_vars

----------------------------------------------------------------------------
(* findPath as a function of the grid: every grid of a size, one call *)

\* the grid sizes the searches are enumerated on
\* the maps a run is played on: the spawn cells of a 2 x 1 map whose base is (1, 0)
RunSpawns == {<<>>, << <<0, 0>> >>}

\* the 2 x 1 map after setPlayerBase(1, 0) and, with a spawn, addEnemySpawn(0, 0)
InitRun ==
    /\ gridWidth = 2 /\ gridHeight = 1
    /\ playerBase = <<1, 0>>
    /\ enemySpawns \in RunSpawns
    /\ grid = [c \in Cells(2, 1) |->
                  IF c = <<1, 0>> THEN PLAYER_BASE
                  ELSE IF enemySpawns # <<>> /\ c = <<0, 0>> THEN ENEMY_SPAWN ELSE EMPTY]
    /\ pathCache = <<>>
    /\ enemies = <<>>
    /\ call = Call("new", NoArg, NoArg, FALSE, -1, FALSE, NoPath)
    /\ emitted = <<>>
    /\ returned = <<>>
    /\ InitEntities

\* the game tells the wave manager the base, starts and stops it, and its
\* loop updates the wave manager and the enemies
NextRun ==
    \/ SetPlayerBaseTarget
    \/ WaveStart
    \/ WaveStop
    \/ \E due \in BOOLEAN : WaveUpdate(due) /\ EnemyBound /\ CacheBound
    \/ \E outcomes \in [1 .. Len(enemies) -> Outcomes] :
          UpdateEnemies(outcomes) /\ CacheBound

SpecRun == InitRun /\ [][NextRun]_vars

----------------------------------------------------------------------------
\* what a listener given to once does when it is invoked: it returns, it
\* throws on its first invocation, or it emits the event on its first
\* invocation
ListenerKinds == {"plain", "throws", "emits"}

\* listeners are registered with once and the event is emitted
NextOnce ==
    \/ \E kind \in ListenerKinds : Once(kind)
    \/ Emit

SpecOnce == Init /\ [][NextOnce]_vars

----------------------------------------------------------------------------
\* the stats argument of registerTowerType: absent, or { cost: 50 }
StatsArguments == {Undefined, CannonCost}

\* the 3 x 2 map after setPlayerBase(2, 0) and addEnemySpawn(0, 0)
InitClick ==
    /\ gridWidth = 3 /\ gridHeight = 2
    /\ playerBase = <<2, 0>>
    /\ enemySpawns = << <<0, 0>> >>
    /\ grid = [c \in Cells(3, 2) |->
                  IF c = <<2, 0>> THEN PLAYER_BASE
                  ELSE IF c = <<0, 0>> THEN ENEMY_SPAWN ELSE EMPTY]
    /\ pathCache = <<>>
    /\ enemies = <<>>
    /\ call = Call("new", NoArg, NoArg, FALSE, -1, FALSE, NoPath)
    /\ emitted = <<>>
    /\ returned = <<>>
    /\ InitEntities

\* the player registers and selects the tower, moves the mouse, clicks and cancels
NextClick ==
    \/ \E stats \in StatsArguments : RegisterTowerType(stats)
    \/ SelectTowerType
    \/ CancelPlacement
    \/ \E c \in Coords(gridWidth, gridHeight) : MouseMove(c) /\ CacheBound
    \/ \E c \in Coords(gridWidth, gridHeight) : Click(c) /\ CacheBound

SpecClick == InitClick /\ [][NextClick]_vars

----------------------------------------------------------------------------
\* how far an update takes a bullet
BulletOutcomes == {"fly", "hit"}

\* the damage of a cannon shot and a blow that kills
DamageAmounts == {CannonDamage, EnemyHp}

\* the 2 x 2 map after setPlayerBase(1, 0), addEnemySpawn(0, 0) and
\* placeTower(1, 1)
InitSettle ==
    /\ gridWidth = 2 /\ gridHeight = 2
    /\ playerBase = <<1, 0>>
    /\ enemySpawns = << <<0, 0>> >>
    /\ grid = [c \in Cells(2, 2) |->
                  IF c = <<1, 0>> THEN PLAYER_BASE
                  ELSE IF c = <<0, 0>> THEN ENEMY_SPAWN
                  ELSE IF c = <<1, 1>> THEN TOWER ELSE EMPTY]
    /\ pathCache = <<>>
    /\ enemies = <<>>
    /\ call = Call("new", NoArg, NoArg, FALSE, -1, FALSE, NoPath)
    /\ emitted = <<>>
    /\ returned = <<>>
    /\ InitEntities

\* enemies are created at the spawn and walk to the base while the tower
\* shoots at them and the bullets fly
NextSettle ==
    \/ \E i \in 1 .. Len(enemySpawns) :
          AddEnemy(enemySpawns[i], playerBase) /\ CacheBound
    \/ \E outcomes \in [1 .. Len(enemies) -> Outcomes] :
          UpdateEnemies(outcomes) /\ CacheBound
    \/ \E i \in 1 .. Len(enemies) : Shoot(i)
    \/ \E outcomes \in [1 .. Incoming(enemies) + Incoming(departed) -> BulletOutcomes] :
          UpdateMunitions(outcomes)
    \/ \E i \in 1 .. Len(enemies), amount \in DamageAmounts : TakeDamage(i, amount)

SpecSettle == InitSettle /\ [][NextSettle]_vars

----------------------------------------------------------------------------
PathDims == {<<3, 3>>, <<5, 1>>}

\* a grid written cell by cell with setCellType: the cells of `blocked` hold
\* a tower (odd columns) or an obstacle (even columns), the first cell is a
\* spawn cell and the last one a base cell unless blocked, the others are empty
PathGrid(w, h, blocked) ==
    [c \in Cells(w, h) |->
        IF c \in blocked THEN (IF c[1] % 2 = 1 THEN TOWER ELSE OBSTACLE)
        ELSE IF c = <<0, 0>> THEN ENEMY_SPAWN
        ELSE IF c = <<w - 1, h - 1>> THEN PLAYER_BASE
        ELSE EMPTY]

InitPath ==
    /\ \E d \in PathDims : gridWidth = d[1] /\ gridHeight = d[2]
    /\ \E blocked \in SUBSET Cells(gridWidth, gridHeight) :
          grid = PathGrid(gridWidth, gridHeight, blocked)
    /\ pathCache = <<>>
    /\ playerBase = NoBase
    /\ enemySpawns = <<>>
    /\ enemies = <<>>
    /\ call = Call("new", NoArg, NoArg, FALSE, -1, FALSE, NoPath)
    /\ emitted = <<>>
    /\ returned = <<>>
    /\ InitEntities

\* the first findPath on the grid, between any two coordinates
NextPath ==
    \E s \in Coords(gridWidth, gridHeight), e \in Coords(gridWidth, gridHeight),
       f \in BOOLEAN :
        call.op = "new" /\ FindPath(s, e, f)

SpecPath == InitPath /\ [][NextPath]_vars

----------------------------------------------------------------------------
(* findPath on a wider grid with few blocked cells, where a search lowers the
   cost of a node that is already in the open set *)

TieDims == {<<4, 3>>}

InitTie ==
    /\ \E d \in TieDims : gridWidth = d[1] /\ gridHeight = d[2]
    /\ \E blocked \in SUBSET Cells(gridWidth, gridHeight) :
          /\ Cardinality(blocked) <= MaxBlocked
          /\ grid = PathGrid(gridWidth, gridHeight, blocked)
    /\ pathCache = <<>>
    /\ playerBase = NoBase
    /\ enemySpawns = <<>>
    /\ enemies = <<>>
    /\ call = Call("new", NoArg, NoArg, FALSE, -1, FALSE, NoPath)
    /\ emitted = <<>>
    /\ returned = <<>>
    /\ InitEntities

\* the first findPath on the grid, between any two cells
NextTie ==
    \E s \in Cells(gridWidth, gridHeight), e \in Cells(gridWidth, gridHeight) :
        call.op = "new" /\ FindPath(s, e, FALSE)

SpecTie == InitTie /\ [][NextTie]_vars

----------------------------------------------------------------------------
(* Placement as a function of the map: every map of a family, one call *)

SeqsUpTo(S, n) == UNION {[1 .. k -> S] : k \in 0 .. n}

Range(seq) == {seq[i] : i \in 1 .. Len(seq)}

\* where the maps of the family have their base and their spawns
SetupBases == {NoBase, <<2, 1>>, <<2, 2>>}
SetupSpawnSites == {<<0, 0>>, <<0, 1>>, <<1, 1>>}

\* the grid after setPlayerBase(base), placeTower and addObstacle on the
\* cells of `blocked` (towers in the middle column) and addEnemySpawn(s) for
\* the spawns
SetupGrid(w, h, base, spawns, blocked) ==
    [c \in Cells(w, h) |->
        IF c \in Range(spawns) THEN ENEMY_SPAWN
        ELSE IF c = base THEN PLAYER_BASE
        ELSE IF c \in blocked THEN (IF c[1] = 1 THEN TOWER ELSE OBSTACLE)
        ELSE EMPTY]

InitPlace ==
    /\ gridWidth = 3 /\ gridHeight = 3
    /\ playerBase \in SetupBases
    /\ enemySpawns \in SeqsUpTo(SetupSpawnSites, MaxSetupSpawns)
    /\ \E blocked \in SUBSET Cells(gridWidth, gridHeight) :
          grid = SetupGrid(gridWidth, gridHeight, playerBase, enemySpawns, blocked)
    /\ pathCache = <<>>
    /\ enemies = <<>>
    /\ call = Call("new", NoArg, NoArg, FALSE, -1, FALSE, NoPath)
    /\ emitted = <<>>
    /\ returned = <<>>
    /\ InitEntities

\* the first placement call on the map, at any coordinate
NextPlace ==
    \/ \E c \in Coords(gridWidth, gridHeight) : call.op = "new" /\ CanPlaceTower(c)
    \/ \E c \in Coords(gridWidth, gridHeight) : call.op = "new" /\ PlaceTower(c)

SpecPlace == InitPlace /\ [][NextPlace]_vars

----------------------------------------------------------------------------
(* What the claims speak of, stated without the search *)

\* the cell types an enemy may walk on
Walkable(g, w, h) ==
    {c \in Cells(w, h) : g[c] \in {EMPTY, PLAYER_BASE, ENEMY_SPAWN}}

\* the number of moves between two coordinates on a grid without obstacles
ManhattanDistance(a, b) == Abs(a[1] - b[1]) + Abs(a[2] - b[2])

\* S and the walkable cells one move up, down, left or right of a cell of S
OneMove(g, w, h, S) ==
    S \cup {n \in Walkable(g, w, h) : \E c \in S : ManhattanDistance(c, n) = 1}

\* the coordinates that moves over walkable cells reach from the set S
RECURSIVE Reachable(_, _, _, _)
Reachable(g, w, h, S) ==
    LET T == OneMove(g, w, h, S)
    IN IF T = S THEN S ELSE Reachable(g, w, h, T)

\* the least number of moves from the set S to end, counted from d;
\* -1 when end is out of reach
RECURSIVE Moves(_, _, _, _, _, _)
Moves(g, w, h, S, end, d) ==
    IF end \in S THEN d
    ELSE LET T == OneMove(g, w, h, S)
         IN IF T = S THEN -1 ELSE Moves(g, w, h, T, end, d + 1)

\* every registered spawn reaches the registered base on grid g
AllSpawnsReachBase(g, w, h, spawns, base) ==
    /\ base # NoBase
    /\ \A i \in 1 .. Len(spawns) : base \in Reachable(g, w, h, {spawns[i]})

InBounds(c) == c \in Cells(gridWidth, gridHeight)

\* the last call wrote a cell
CellChangingCall ==
    \/ call.op \in {"addObstacle", "placeTower", "removeTower"} /\ call.ret
    \/ call.op \in {"setPlayerBase", "addEnemySpawn", "setCellType"} /\ InBounds(call.a)

\* the coordinates a search pushed into the open set, in the order of the
\* pushes: the start, then what each iteration pushed
RECURSIVE Pushes(_, _)
Pushes(trace, k) ==
    IF k > Len(trace) THEN <<>> ELSE trace[k].pushed \o Pushes(trace, k + 1)

\* the place of a coordinate in the order of the pushes
PushedAt(pushes, pos) == CHOOSE i \in 1 .. Len(pushes) : pushes[i] = pos

----------------------------------------------------------------------------
(* The claims *)

\* C1: in every reachable state every path-cache entry equals what a fresh
\* search between its endpoints returns on the committed grid.
C1_CacheReflectsCommittedGrid ==
    \A k \in DOMAIN pathCache :
        pathCache[k] = Search(grid, gridWidth, gridHeight, k[1], k[2])

\* C2: a findPath call with forceRecalculate = true returns the result of a
\* search whatever the cache holds, and leaves the cache as it was.
C2_BypassNeitherReadsNorWrites ==
    [][(call'.op = "findPath" /\ call'.force)
        => /\ call'.path = Search(grid, gridWidth, gridHeight, call'.a, call'.b)
           /\ pathCache' = pathCache]_vars

\* C3: a canPlaceTower call, at any coordinate and whatever it returns,
\* leaves every cell of the grid as it was.
C3_CanPlaceTowerLeavesGrid ==
    [][call'.op = "canPlaceTower" => grid' = grid]_vars

\* C3 witness: canPlaceTower has simulated a tower on an empty cell, answered
\* true, and the cell is empty again.
C3_Witness ==
    /\ call.op = "canPlaceTower" /\ call.ret
    /\ Len(enemySpawns) > 0
    /\ grid[call.a] = EMPTY

\* C4: when canPlaceTower or placeTower answers true, every registered spawn
\* reaches the base on the grid with the tower on the cell; when the tower
\* would cut a registered spawn off, both answer false and the cell stays empty.
C4_PlacementNeverSevers ==
    [][call'.op \in {"canPlaceTower", "placeTower"}
        => LET c == call'.a
               withTower == IF InBounds(c) THEN [grid EXCEPT ![c] = TOWER] ELSE grid
               reach == AllSpawnsReachBase(withTower, gridWidth, gridHeight,
                                           enemySpawns, playerBase)
           IN /\ call'.ret => reach
              /\ (InBounds(c) /\ grid[c] = EMPTY /\ ~reach)
                     => ~call'.ret /\ grid'[c] = EMPTY]_vars

\* C4 witness: the corridor of the 3x3 map, base (2,1), spawn (0,1), cells
\* (1,0) and (1,2) blocked: placeTower(1,1) answered false, the cell is empty.
C4_Witness ==
    /\ call.op = "placeTower" /\ ~call.ret /\ call.a = <<1, 1>>
    /\ gridWidth = 3 /\ gridHeight = 3
    /\ playerBase = <<2, 1>> /\ enemySpawns = << <<0, 1>> >>
    /\ grid[<<1, 0>>] \in {TOWER, OBSTACLE} /\ grid[<<1, 2>>] \in {TOWER, OBSTACLE}
    /\ grid[<<1, 1>>] = EMPTY

\* C5: canPlaceTower answers true exactly when the cell is in bounds and
\* empty, a base is registered and every registered spawn reaches the base
\* with the cell blocked.
C5_CanPlaceTowerExact ==
    [][call'.op = "canPlaceTower"
        => (call'.ret <=>
               /\ InBounds(call'.a)
               /\ grid[call'.a] = EMPTY
               /\ AllSpawnsReachBase([grid EXCEPT ![call'.a] = TOWER], gridWidth,
                                     gridHeight, enemySpawns, playerBase))]_vars

\* C5 witness: the 3x3 map with base (2,2) and spawn (0,0): canPlaceTower(1,1)
\* answered true, the spawns reach the base around the cell.
C5_Witness ==
    /\ call.op = "canPlaceTower" /\ call.ret /\ call.a = <<1, 1>>
    /\ gridWidth = 3 /\ gridHeight = 3
    /\ playerBase = <<2, 2>> /\ Len(enemySpawns) = 2 /\ enemySpawns[1] = <<0, 0>>

\* C6: placeTower answers what canPlaceTower answers in the same state; on
\* true the cell holds a tower and no other cell changed; on false no cell,
\* no base, no spawn changed and nothing was emitted.
C6_PlaceTowerFollowsCheck ==
    [][call'.op = "placeTower"
        => /\ call'.ret = canPlaceTowerResult(grid, gridWidth, gridHeight, pathCache,
                                              enemySpawns, playerBase, call'.a)
           /\ call'.ret => InBounds(call'.a) /\ grid' = [grid EXCEPT ![call'.a] = TOWER]
           /\ ~call'.ret => /\ grid' = grid
                            /\ playerBase' = playerBase
                            /\ enemySpawns' = enemySpawns
                            /\ emitted' = <<>>]_vars

\* C6 witness: placeTower answered true on a map with a base and two spawns,
\* the cell holds the tower.
C6_Witness ==
    /\ call.op = "placeTower" /\ call.ret
    /\ playerBase # NoBase /\ Len(enemySpawns) = 2
    /\ grid[call.a] = TOWER

C8_FreshPathIsShortest ==
    (call.op = "findPath" /\ call.path.found)
        => Len(call.path.path)
               = 1 + Moves(grid, gridWidth, gridHeight, {call.a}, call.b, 0)

\* C8 witness: the 5x1 grid without obstacles: findPath(0,0,4,0) returned the
\* five cells in order.
C8_Witness ==
    /\ call.op = "findPath" /\ gridWidth = 5 /\ gridHeight = 1
    /\ call.a = <<0, 0>> /\ call.b = <<4, 0>>
    /\ call.path = Found(<< <<0, 0>>, <<1, 0>>, <<2, 0>>, <<3, 0>>, <<4, 0>> >>)

\* C9: on a grid without tower and obstacle every findPath between two
\* in-bounds coordinates returns a path of 1 + Manhattan distance cells.
C9_OpenGridManhattanLength ==
    (/\ call.op = "findPath" /\ InBounds(call.a) /\ InBounds(call.b)
     /\ \A c \in Cells(gridWidth, gridHeight) : grid[c] \notin {TOWER, OBSTACLE})
        => /\ call.path.found
           /\ Len(call.path.path) = 1 + ManhattanDistance(call.a, call.b)

\* C10: a freshly computed findPath returns no path exactly when moves over
\* walkable cells do not reach the end from the start, and a path otherwise.
C10_NoPathIffUnreachable ==
    call.op = "findPath"
        => /\ call.path.found
               <=> call.b \in Reachable(grid, gridWidth, gridHeight, {call.a})
           /\ call.path.found => Len(call.path.path) > 0
           /\ ~call.path.found => call.path = NoPath

\* C10 witness: findPath returned no path between two walkable cells of the
\* 3x3 grid that the blocked cells separate.
C10_Witness ==
    /\ call.op = "findPath" /\ ~call.path.found
    /\ gridWidth = 3
    /\ call.a \in Walkable(grid, gridWidth, gridHeight)
    /\ call.b \in Walkable(grid, gridWidth, gridHeight)

\* C11: every path findPath computes begins at the start, ends at the end,
\* moves one cell up, down, left or right between consecutive entries, holds
\* no cell twice, and every cell after the first is in bounds and walkable on
\* the grid the search ran on.
C11_PathIsSimpleWalk ==
    (call.op = "findPath" /\ call.path.found)
        => LET p == call.path.path
           IN /\ Len(p) >= 1
              /\ p[1] = call.a
              /\ p[Len(p)] = call.b
              /\ \A i \in 1 .. Len(p) - 1 : ManhattanDistance(p[i], p[i + 1]) = 1
              /\ \A i \in 1 .. Len(p) : \A j \in 1 .. Len(p) : p[i] = p[j] => i = j
              /\ \A i \in 2 .. Len(p) : p[i] \in Walkable(grid, gridWidth, gridHeight)

\* C11 witness: findPath returned a path that goes around blocked cells: it
\* is longer than the Manhattan distance of its endpoints asks for.
C11_Witness ==
    /\ call.op = "findPath" /\ call.path.found
    /\ gridWidth = 3 /\ gridHeight = 3
    /\ Len(call.path.path) > 1 + ManhattanDistance(call.a, call.b)

\* C12: a findPath call without bypass, made after an earlier one for the
\* same endpoints with no write of a cell in between, finds its entry in the
\* cache, returns what the earlier call returned (a path or no path) and
\* leaves the cache as it is.
C12_SecondCallReturnsFirst ==
    [][(/\ call'.op = "findPath" /\ ~call'.force
        /\ CacheKey(call'.a, call'.b) \in DOMAIN returned)
        => /\ CacheHit(pathCache, call'.a, call'.b, FALSE)
           /\ call'.path = returned[CacheKey(call'.a, call'.b)]
           /\ pathCache' = pathCache]_vars

\* C13: setPlayerBase and addEnemySpawn with a coordinate out of bounds
\* signal the failure to their caller by throwing.
C13_OutOfBoundsRegistrationRaises ==
    (call.op \in {"setPlayerBase", "addEnemySpawn"} /\ ~InBounds(call.a))
        => call.raised

\* C14: setPlayerBase and addEnemySpawn with a coordinate out of bounds
\* change nothing: no cell, not the recorded base, not the spawn list, not
\* the path cache, and they emit no notification.
C14_OutOfBoundsRegistrationNoOp ==
    [][(call'.op \in {"setPlayerBase", "addEnemySpawn"} /\ ~InBounds(call'.a))
        => /\ grid' = grid
           /\ playerBase' = playerBase
           /\ enemySpawns' = enemySpawns
           /\ pathCache' = pathCache
           /\ emitted' = <<>>]_vars

\* C14 witness: a registration out of bounds was made on a map that has a
\* base and a filled path cache, which is still filled.
C14_Witness ==
    /\ call.op \in {"setPlayerBase", "addEnemySpawn"} /\ ~InBounds(call.a)
    /\ playerBase # NoBase
    /\ pathCache # <<>>

\* C15: in every reachable state at most one cell of the grid is a base cell.
C15_AtMostOneBaseCell ==
    Cardinality({c \in Cells(gridWidth, gridHeight) : grid[c] = PLAYER_BASE}) <= 1

\* C16: while no base is registered canPlaceTower answers false for every
\* coordinate, whatever the cell holds and whatever spawns are registered,
\* without throwing and with every cell of the grid as it was.
C16_NoBaseNoPlacement ==
    [][(call'.op = "canPlaceTower" /\ playerBase = NoBase)
        => /\ ~call'.ret
           /\ ~call'.raised
           /\ grid' = grid]_vars

\* C16 witness: canPlaceTower answered false on an empty cell of a map with
\* a spawn and no base, and the cell is empty.
C16_Witness ==
    /\ call.op = "canPlaceTower" /\ ~call.ret
    /\ playerBase = NoBase /\ Len(enemySpawns) > 0
    /\ InBounds(call.a) /\ grid[call.a] = EMPTY

\* C17: addObstacle answers true exactly when the cell is in bounds and
\* empty, and then the cell holds an obstacle and no other cell changed; in
\* every other case it answers false, throws nothing, and leaves grid, base,
\* spawns and cache as they were and emits nothing.
C17_AddObstacleExact ==
    [][call'.op = "addObstacle"
        => /\ call'.ret <=> (InBounds(call'.a) /\ grid[call'.a] = EMPTY)
           /\ ~call'.raised
           /\ call'.ret => grid' = [grid EXCEPT ![call'.a] = OBSTACLE]
           /\ ~call'.ret => /\ grid' = grid
                            /\ playerBase' = playerBase
                            /\ enemySpawns' = enemySpawns
                            /\ pathCache' = pathCache
                            /\ emitted' = <<>>]_vars

\* C17 witness: addObstacle answered false on a cell that holds a tower, a
\* base or a spawn, on a map whose path cache is filled.
C17_Witness ==
    /\ call.op = "addObstacle" /\ ~call.ret
    /\ InBounds(call.a) /\ grid[call.a] \in {TOWER, PLAYER_BASE, ENEMY_SPAWN}
    /\ pathCache # <<>>

\* C18 as stated: removeTower answers true exactly when the cell is in bounds
\* and holds a tower, and then the cell is empty and the path cache is empty;
\* in every other case it answers false, changes no cell and no cache entry
\* and emits nothing.
C18_RemoveTowerLeavesCacheEmpty ==
    [][call'.op = "removeTower"
        => /\ call'.ret <=> (InBounds(call'.a) /\ grid[call'.a] = TOWER)
           /\ call'.ret => /\ grid' = [grid EXCEPT ![call'.a] = EMPTY]
                           /\ pathCache' = <<>>
           /\ ~call'.ret => /\ grid' = grid
                            /\ pathCache' = pathCache
                            /\ emitted' = <<>>]_vars

\* C18 as amended: removeTower answers true exactly when the cell is in
\* bounds and holds a tower, and then the cell is empty and the path cache
\* holds no entry from before the call: it holds only what the EnemyManager's
\* listener computed on the new grid, and nothing when there is no enemy; in
\* every other case it answers false, changes no cell and no cache entry and
\* emits nothing.
C18_RemoveTowerExact ==
    [][call'.op = "removeTower"
        => /\ call'.ret <=> (InBounds(call'.a) /\ grid[call'.a] = TOWER)
           /\ call'.ret
                 => /\ grid' = [grid EXCEPT ![call'.a] = EMPTY]
                    /\ \A k \in DOMAIN pathCache' :
                          pathCache'[k] = Search(grid', gridWidth, gridHeight, k[1], k[2])
                    /\ enemies = <<>> => pathCache' = <<>>
                    /\ emitted' = <<MapChanged(call'.a, EMPTY), MapStructureChanged>>
           /\ ~call'.ret => /\ grid' = grid
                            /\ pathCache' = pathCache
                            /\ emitted' = <<>>]_vars

\* C18 witness: removeTower answered true with an enemy on the map; the cell
\* is empty and the cache holds the path the enemy recomputed.
C18_Witness ==
    /\ call.op = "removeTower" /\ call.ret
    /\ grid[call.a] = EMPTY
    /\ Len(enemies) > 0
    /\ pathCache # <<>>

\* C19: isCellPassable for enemies is true exactly for the in-bounds cells
\* that are empty, base or spawn, and otherwise exactly for the in-bounds
\* empty cells; so canPlaceTower, placeTower and addObstacle answer true on
\* empty cells only and leave every cell that is not empty as it is.
C19_OnlyEmptyCellsAreBuiltOn ==
    [][/\ \A c \in Coords(gridWidth, gridHeight) :
             /\ isCellPassable(grid, gridWidth, gridHeight, c, TRUE)
                   <=> (InBounds(c) /\ grid[c] \in {EMPTY, PLAYER_BASE, ENEMY_SPAWN})
             /\ isCellPassable(grid, gridWidth, gridHeight, c, FALSE)
                   <=> (InBounds(c) /\ grid[c] = EMPTY)
       /\ call'.op \in {"canPlaceTower", "placeTower", "addObstacle"}
             => /\ call'.ret => (InBounds(call'.a) /\ grid[call'.a] = EMPTY)
                /\ \A c \in Cells(gridWidth, gridHeight) :
                      grid[c] # EMPTY => grid'[c] = grid[c]]_vars

\* C19 witness: placeTower was refused on a base, spawn, obstacle or tower
\* cell of a map with a base, and the cell holds what it held.
C19_Witness ==
    /\ call.op = "placeTower" /\ ~call.ret
    /\ playerBase # NoBase
    /\ InBounds(call.a)
    /\ grid[call.a] \in {TOWER, OBSTACLE, PLAYER_BASE, ENEMY_SPAWN}

\* C20: setCellType with a coordinate out of bounds throws nothing, changes
\* no cell, leaves the path cache as it is and emits no notification.
C20_OutOfBoundsSetCellTypeNoOp ==
    [][(call'.op = "setCellType" /\ ~InBounds(call'.a))
        => /\ ~call'.raised
           /\ grid' = grid
           /\ pathCache' = pathCache
           /\ emitted' = <<>>]_vars

\* C20 witness: setCellType was called out of bounds on a grid with a
\* written cell and a filled path cache, which is still filled.
C20_Witness ==
    /\ call.op = "setCellType" /\ ~InBounds(call.a)
    /\ \E c \in Cells(gridWidth, gridHeight) : grid[c] # EMPTY
    /\ pathCache # <<>>

\* C21: a placeTower or removeTower that answers true emits mapStructureChanged
\* exactly once, as its last notification, after the cell is written and the
\* cache cleared: the EnemyManager's listener has run on the new grid with an
\* empty cache.  One that answers false emits nothing.
C21_StructureChangedOnceAfterWrite ==
    [][call'.op \in {"placeTower", "removeTower"}
        => LET n == Cardinality({i \in 1 .. Len(emitted') :
                                    emitted'[i].name = "mapStructureChanged"})
               upd == updateAllEnemyPaths(grid', gridWidth, gridHeight, <<>>, enemies, 1)
           IN /\ call'.ret
                    => /\ n = 1
                       /\ emitted'[Len(emitted')].name = "mapStructureChanged"
                       /\ grid'[call'.a] = IF call'.op = "placeTower" THEN TOWER ELSE EMPTY
                       /\ enemies' = upd.enemies
                       /\ pathCache' = upd.cache
              /\ ~call'.ret => emitted' = <<>>]_vars

\* C21 witness: placeTower answered true with an enemy on the map that has a
\* path on the new grid, and the two notifications were emitted.
C21_Witness ==
    /\ call.op = "placeTower" /\ call.ret
    /\ Len(emitted) = 2 /\ emitted[2].name = "mapStructureChanged"
    /\ \E i \in 1 .. Len(enemies) : enemies[i].isActive /\ enemies[i].path.found

C23_CanPlaceTowerIsSilent ==
    [][call'.op = "canPlaceTower"
        => /\ emitted' = <<>>
           /\ enemies' = enemies
           /\ grid' = grid]_vars

\* C23 witness: canPlaceTower answered false because the simulated tower cut
\* a spawn off from the base, and nothing was emitted.
C23_Witness ==
    /\ call.op = "canPlaceTower" /\ ~call.ret
    /\ InBounds(call.a) /\ grid[call.a] = EMPTY
    /\ playerBase # NoBase /\ Len(enemySpawns) > 0
    /\ emitted = <<>>

\* C26: after a placeTower or removeTower that answered true, every active
\* enemy holds a path that begins at the cell the enemy is in, ends at its
\* target, and is the one a search on the new grid gives; none of the
\* waypoints it has still to reach is a tower or an obstacle.
C26_EnemiesRepathedOnNewGrid ==
    (call.op \in {"placeTower", "removeTower"} /\ call.ret)
        => \A i \in 1 .. Len(enemies) :
              enemies[i].isActive
                 => LET e == enemies[i]
                        p == e.path.path
                    IN /\ e.path.found
                       /\ p[1] = e.pos
                       /\ p[Len(p)] = e.target
                       /\ e.path = Search(grid, gridWidth, gridHeight, e.pos, e.target)
                       /\ \A k \in e.idx + 1 .. Len(p) :
                             p[k] \in Walkable(grid, gridWidth, gridHeight)

\* C26 witness: placeTower answered true while an enemy was on its way, off
\* the spawn cell, and the enemy holds a path from the cell it is in.
C26_Witness ==
    /\ call.op = "placeTower" /\ call.ret
    /\ \E i \in 1 .. Len(enemies) :
          /\ enemies[i].isActive /\ enemies[i].path.found
          /\ enemies[i].pos \notin Range(enemySpawns)
          /\ enemies[i].path.path[1] = enemies[i].pos
          /\ Len(enemies[i].path.path) >= 2

\* C27: what placeTower answers is decided by the grid, the base and the
\* spawns alone: it answers true exactly when the cell is empty and every
\* spawn reaches the base with the cell blocked, wherever the enemies are.
C27_PlacementIgnoresEnemies ==
    [][call'.op = "placeTower"
        => (call'.ret <=>
               /\ InBounds(call'.a)
               /\ grid[call'.a] = EMPTY
               /\ AllSpawnsReachBase([grid EXCEPT ![call'.a] = TOWER], gridWidth,
                                     gridHeight, enemySpawns, playerBase))]_vars

\* C27 witness: placeTower answered true and left an enemy that was on its
\* way without a path to the base: the enemy is inactive in a cell that no
\* longer reaches the base.
C27_Witness ==
    /\ call.op = "placeTower" /\ call.ret
    /\ \E i \in 1 .. Len(enemies) :
          /\ ~enemies[i].isActive /\ ~enemies[i].path.found
          /\ enemies[i].pos # playerBase
          /\ playerBase \notin Reachable(grid, gridWidth, gridHeight, {enemies[i].pos})

\* C28: the cell at the recorded base holds the base type and the cell at
\* every recorded spawn holds the spawn type.
C28_RegistryMatchesGrid ==
    /\ playerBase # NoBase => grid[playerBase] = PLAYER_BASE
    /\ \A i \in 1 .. Len(enemySpawns) : grid[enemySpawns[i]] = ENEMY_SPAWN

\* C30: findPath returns no path when its start is off the grid or on a
\* tower or obstacle cell.
C30_UnusableStartGivesNoPath ==
    (/\ call.op = "findPath"
     /\ \/ ~InBounds(call.a)
        \/ grid[call.a] \in {TOWER, OBSTACLE})
        => ~call.path.found

\* C24: within one search no coordinate is pushed into the open set twice,
\* none is expanded twice, none is pushed after it was expanded, and the
\* number of expansions is at most the number of cells.
C24_ExpansionsBoundedByCells ==
    call.op = "findPath"
        => LET t == SearchTrace(grid, gridWidth, gridHeight, call.a, call.b)
               pushes == <<call.a>> \o Pushes(t, 1)
               expanded == {k \in 1 .. Len(t) : ~t[k].atEnd}
           IN /\ \A i, j \in 1 .. Len(pushes) : pushes[i] = pushes[j] => i = j
              /\ \A i, j \in 1 .. Len(t) : t[i].current = t[j].current => i = j
              /\ \A i, j \in 1 .. Len(t) :
                    i <= j => \A k \in 1 .. Len(t[j].pushed) :
                                 t[j].pushed[k] # t[i].current
              /\ Cardinality(expanded) <= gridWidth * gridHeight

\* C25: whenever a search takes a node off the open set, no other open node
\* of the same cost f was pushed before it.
C25_TiesByInsertionOrder ==
    call.op = "findPath"
        => LET t == SearchTrace(grid, gridWidth, gridHeight, call.a, call.b)
               pushes == <<call.a>> \o Pushes(t, 1)
           IN \A k \in 1 .. Len(t) :
                 \A i \in 2 .. Len(t[k].open) :
                    t[k].open[i].f = t[k].open[1].f
                       => PushedAt(pushes, t[k].current)
                             < PushedAt(pushes, t[k].open[i].pos)

\* C29: no coordinate is registered as a spawn twice, and a wave spawn tick
\* creates as many enemies as there are distinct spawn cells.
C29_OneEnemyPerSpawnCell ==
    [][/\ \A i, j \in 1 .. Len(enemySpawns') :
             enemySpawns'[i] = enemySpawns'[j] => i = j
       /\ call'.op = "spawnEnemyFromGroup"
             => Len(enemies') - Len(enemies) = Cardinality(Range(enemySpawns))]_vars

\* C31: an enemy created at a cell from which the base is reached on the grid
\* ends its constructor active with a path that ends at the base, whatever
\* placement checks and refused placements came before.
C31_SpawnedEnemyHasPath ==
    (/\ call.op = "addEnemy"
     /\ call.b \in Reachable(grid, gridWidth, gridHeight, {call.a}))
        => LET e == enemies[Len(enemies)]
           IN /\ e.isActive
              /\ e.path.found
              /\ Len(e.path.path) > 0
              /\ e.path.path[Len(e.path.path)] = call.b

\* how often a step has emitted playerBaseDestroyed
RECURSIVE CountDestroyed(_)
CountDestroyed(evs) ==
    IF evs = <<>> THEN 0
    ELSE (IF Head(evs).name = "playerBaseDestroyed" THEN 1 ELSE 0) + CountDestroyed(Tail(evs))

\* C37: PlayerBase emits playerBaseDestroyed at most once: the step that takes
\* the hp to 0 emits it once, and a step that starts with the hp at 0 does
\* not emit it
C37_DestroyedAtMostOnce ==
    [][CountDestroyed(emitted') <= (IF playerBaseHp = 0 THEN 0 ELSE 1)]_vars

\* C33: an enemy that is no longer active has called handleEnemyDefeated or
\* handleEnemyReachedBase
C33_InactiveEnemyWasSettled ==
    \A i \in 1 .. Len(enemies) :
        ~enemies[i].isActive => enemies[i].defeated + enemies[i].reachedBase >= 1

\* C32: an enemy is settled at most once: an enemy of the list, and an enemy
\* that left the list with bullets still in flight to it, has called at most
\* one of handleEnemyDefeated and handleEnemyReachedBase, at most once
C32_SettledAtMostOnce ==
    /\ \A i \in 1 .. Len(enemies) : enemies[i].defeated + enemies[i].reachedBase <= 1
    /\ \A i \in 1 .. Len(departed) : departed[i].defeated + departed[i].reachedBase <= 1

\* takeDamage was called on an enemy that had died before the call, and a
\* bullet is still in flight to an enemy that has reached the base
C32_Witness ==
    /\ call.op = "takeDamage" /\ emitted = <<>>
    /\ \E i \in 1 .. Len(enemies) : enemies[i].pos = call.a /\ enemies[i].defeated = 1
    /\ \E i \in 1 .. Len(departed) : departed[i].reachedBase = 1

\* C34: a left click in placing mode either takes the cost of the selected
\* tower from the cash and turns the clicked cell into a tower, or leaves
\* cash and grid as they were
C34_ClickPaysAndPlacesOrNothing ==
    [][(call'.op = "click" /\ placing.isPlacingTower)
          => \/ /\ cash' = cash - CannonCost
                /\ call'.a \in Cells(gridWidth, gridHeight)
                /\ grid[call'.a] # TOWER
                /\ grid' = [grid EXCEPT ![call'.a] = TOWER]
             \/ cash' = cash /\ grid' = grid]_vars

\* C35: an update of the wave manager leaves the wave number or starts the
\* next wave, never one beyond the defined waves; and it starts the wave after
\* wave k only when every group of wave k has created its enemies count times
\* and the enemy list is empty
C35_WavesInOrderAfterFullSpawn ==
    [][(call'.op = "update" /\ wave'.currentWaveNumber # wave.currentWaveNumber)
          => /\ wave'.currentWaveNumber = wave.currentWaveNumber + 1
             /\ wave'.currentWaveNumber <= Len(WaveDefinitions)
             /\ wave.currentWaveNumber >= 1
                   => wave.currentWaveNumber \in wave.full /\ Len(enemies) = 0]_vars

\* C36: allWavesCleared is emitted only when every group of every defined
\* wave has created its enemies count times and the enemy list is empty
C36_ClearedOnlyAfterAllWaves ==
    [][(\E i \in 1 .. Len(emitted') : emitted'[i].name = "allWavesCleared")
          => wave.full = 1 .. Len(WaveDefinitions) /\ Len(enemies) = 0]_vars

\* C38: a listener registered with once has been invoked at most once
C38_OnceListenerInvokedAtMostOnce ==
    \A id \in 1 .. Len(events.invoked) : events.invoked[id].count <= 1
====
